---- MODULE Spec2Model ----
(***************************************************************************)
(* SMS ingestion of sms_webhook: the webhook (push) entry point, the poll  *)
(* (fetch) entry point, the MPESA extractors and the store of SMSMessage   *)
(* and MPESATransaction rows.                                              *)
(*                                                                         *)
(* Text is a sequence of one-character strings.  Python's None is the      *)
(* one-element sequence <<"None">> for text values and the string "None"   *)
(* for enumerations.                                                       *)
(***************************************************************************)
EXTENDS Integers, Sequences, FiniteSets, TLC

\* ------------------------------------------------------------------ text

UpperChars ==
  <<"A","B","C","D","E","F","G","H","I","J","K","L","M",
    "N","O","P","Q","R","S","T","U","V","W","X","Y","Z">>

LowerChars ==
  <<"a","b","c","d","e","f","g","h","i","j","k","l","m",
    "n","o","p","q","r","s","t","u","v","w","x","y","z">>

Range(f) == {f[i] : i \in DOMAIN f}

Digits == {"0","1","2","3","4","5","6","7","8","9"}

Letters == Range(UpperChars) \cup Range(LowerChars)

\* \w of the re module
WordChars == Letters \cup Digits \cup {"_"}

\* \s of the re module
WhiteSpace == {" ", "\t", "\n"}

Punctuation == {".", ",", "/", ":", "+", "-", "@", "?", "!"}

Alphabet == WordChars \cup WhiteSpace \cup Punctuation

\* '.' of the re module (no DOTALL): anything but a line break
AnyChar == Alphabet \ {"\n"}

LowerOf(c) ==
  IF \E i \in 1..Len(UpperChars) : UpperChars[i] = c
  THEN LowerChars[CHOOSE i \in 1..Len(UpperChars) : UpperChars[i] = c]
  ELSE c

UpperOf(c) ==
  IF \E i \in 1..Len(LowerChars) : LowerChars[i] = c
  THEN UpperChars[CHOOSE i \in 1..Len(LowerChars) : LowerChars[i] = c]
  ELSE c

\* str.lower() and str.upper()
Lower(s) == [i \in 1..Len(s) |-> LowerOf(s[i])]

Upper(s) == [i \in 1..Len(s) |-> UpperOf(s[i])]

DigitVal(c) ==
  CASE c = "0" -> 0 [] c = "1" -> 1 [] c = "2" -> 2 [] c = "3" -> 3
    [] c = "4" -> 4 [] c = "5" -> 5 [] c = "6" -> 6 [] c = "7" -> 7
    [] c = "8" -> 8 [] c = "9" -> 9

\* Python's None, for a text value
NoneStr == <<"None">>

\* sub in s
Contains(s, sub) ==
  \E i \in 1..(Len(s) - Len(sub) + 1) : SubSeq(s, i, i + Len(sub) - 1) = sub

\* s.startswith(pre)
StartsWith(s, pre) ==
  Len(s) >= Len(pre) /\ SubSeq(s, 1, Len(pre)) = pre

\* s[n:]
DropFirst(s, n) == IF n >= Len(s) THEN <<>> ELSE SubSeq(s, n + 1, Len(s))

\* s.strip()
RECURSIVE LStrip(_)
LStrip(s) ==
  IF s # <<>> /\ Head(s) \in WhiteSpace THEN LStrip(Tail(s)) ELSE s

RECURSIVE RStrip(_)
RStrip(s) ==
  IF s # <<>> /\ s[Len(s)] \in WhiteSpace
  THEN RStrip(SubSeq(s, 1, Len(s) - 1))
  ELSE s

Strip(s) == RStrip(LStrip(s))

\* the characters of s that are in keep, in order (re.sub of the others by '')
RECURSIVE Filter(_, _)
Filter(s, keep) ==
  IF s = <<>> THEN <<>>
  ELSE IF Head(s) \in keep THEN <<Head(s)>> \o Filter(Tail(s), keep)
       ELSE Filter(Tail(s), keep)

\* ----------------------------------------------------- regular expressions
\* A pattern is a sequence of nodes.  Matching keeps the set of all the ways
\* the nodes read so far can have matched: where in the text each stands,
\* its groups, and its key, the choices it took in pattern order (the start
\* position, then per repetition its length, negated when greedy, and per
\* alternation the branch).  The backtracking of the re module returns the
\* complete match it reaches first, which is the one of least key: leftmost
\* start, then longest greedy and shortest lazy repetitions and leftmost
\* branches, earlier choices before later ones.

GroupNames == {"code", "amount", "name", "phone", "date", "time"}

\* set{lo,hi}; hi = -1 is unbounded
Rep(set, lo, hi, greedy) ==
  [t |-> "set", s |-> set, lo |-> lo, hi |-> hi, greedy |-> greedy]

One(set) == Rep(set, 1, 1, TRUE)

Star(set) == Rep(set, 0, -1, TRUE)

Plus(set) == Rep(set, 1, -1, TRUE)

Opt(set) == Rep(set, 0, 1, TRUE)

\* a literal under re.IGNORECASE
Lit(str) == <<[t |-> "lit", str |-> Lower(str)]>>

Open(g) == [t |-> "open", g |-> g]

Close(g) == [t |-> "close", g |-> g]

Alt(alts) == [t |-> "alt", alts |-> alts]

\* \b
WordBoundary == [t |-> "wb"]

NoCaps == [g \in GroupNames |-> <<0, 0>>]

NoMatch == [ok |-> FALSE, from |-> 0, end |-> 0, caps |-> NoCaps]

Max(S) == CHOOSE x \in S : \A y \in S : y <= x

Min(S) == CHOOSE x \in S : \A y \in S : x <= y

\* the longest run of characters of set from pos, at most hi long (hi = -1:
\* any length)
Run(s, pos, set, hi) ==
  LET cap == IF hi < 0 \/ hi > Len(s) - pos + 1 THEN Len(s) - pos + 1 ELSE hi
  IN Max({k \in 0..cap : \A i \in 0..(k - 1) : s[pos + i] \in set})

IsWordAt(s, i) == i >= 1 /\ i <= Len(s) /\ s[i] \in WordChars

\* key a comes before key b
KeyLess(a, b) ==
  \E i \in 1..Min({Len(a), Len(b)}) :
    a[i] < b[i] /\ \A j \in 1..(i - 1) : a[j] = b[j]

RECURSIVE MatchSeq(_, _, _, _, _)
\* the ways node n matches on s, continuing each of the ways in S
MatchNode(n, s, S) ==
  CASE n.t = "lit" ->
         {[x EXCEPT !.pos = x.pos + Len(n.str)] :
            x \in {y \in S : y.pos + Len(n.str) - 1 <= Len(s)
                             /\ Lower(SubSeq(s, y.pos, y.pos + Len(n.str) - 1)) = n.str}}
    [] n.t = "set" ->
         UNION {{[x EXCEPT !.pos = x.pos + k,
                           !.key = Append(x.key, IF n.greedy THEN 0 - k ELSE k)] :
                   k \in n.lo..Run(s, x.pos, n.s, n.hi)} : x \in S}
    [] n.t = "open" ->
         {[x EXCEPT !.caps[n.g] = <<x.pos, 0>>] : x \in S}
    [] n.t = "close" ->
         {[x EXCEPT !.caps[n.g] = <<x.caps[n.g][1], x.pos>>] : x \in S}
    [] n.t = "alt" ->
         UNION {MatchSeq(n.alts[i], 1, Len(n.alts[i]), s,
                         {[x EXCEPT !.key = Append(x.key, i)] : x \in S}) :
                  i \in 1..Len(n.alts)}
    [] n.t = "wb" ->
         {x \in S : IsWordAt(s, x.pos - 1) # IsWordAt(s, x.pos)}

\* the ways nodes i..j of pat match on s, continuing each of the ways in S;
\* the nodes are taken by halves, each half matched before the next is begun
MatchSeq(pat, i, j, s, S) ==
  IF i > j THEN S
  ELSE IF i = j THEN MatchNode(pat[i], s, S)
  ELSE LET m == (i + j) \div 2
           L == MatchSeq(pat, i, m, s, S)
       IN IF L = {} THEN {} ELSE MatchSeq(pat, m + 1, j, s, L)

\* re.search(pat, s): the match at the leftmost position that has one
Search(pat, s) ==
  LET all == MatchSeq(pat, 1, Len(pat), s,
                      {[pos |-> p, caps |-> NoCaps, key |-> <<p>>] :
                         p \in 1..(Len(s) + 1)})
      x == CHOOSE y \in all : \A z \in all : z.key = y.key \/ KeyLess(y.key, z.key)
  IN IF all = {} THEN NoMatch
     ELSE [ok |-> TRUE, from |-> x.key[1], end |-> x.pos, caps |-> x.caps]

\* match.groupdict()[g]: the text of group g; every group of the four
\* patterns takes part in every match of its pattern
Group(m, s, g) ==
  IF m.caps[g] = <<0, 0>> THEN NoneStr
  ELSE SubSeq(s, m.caps[g][1], m.caps[g][2] - 1)

\* ------------------------------------------------------- the MPESA patterns
\* mpesa_parser.py and sms_fetcher.py build the same four patterns from the
\* same five pieces and search them with re.IGNORECASE.

W_Confirmed == <<"C","o","n","f","i","r","m","e","d">>

W_You == <<"Y","o","u">>

W_have == <<"h","a","v","e">>

W_received == <<"r","e","c","e","i","v","e","d">>

W_Ksh == <<"K","s","h">>

W_from == <<"f","r","o","m">>

W_sent == <<"s","e","n","t">>

W_to == <<"t","o">>

W_paid == <<"p","a","i","d">>

W_on == <<"o","n">>

W_at == <<"a","t">>

W_AM == <<"A","M">>

W_PM == <<"P","M">>

W_PESA == <<"P","E","S","A">>

Sp0 == Star(WhiteSpace)

Sp1 == Plus(WhiteSpace)

\* (?P<amount>[\d,]+(?:\.\d{2})?)
amount_rx ==
  <<Open("amount"), Plus(Digits \cup {","}),
    Alt(<< <<One({"."}), Rep(Digits, 2, 2, TRUE)>>, <<>> >>),
    Close("amount")>>

\* (?P<phone>(?:\+?254|0)7\d{8})
phone_rx ==
  <<Open("phone"),
    Alt(<< <<Opt({"+"}), One({"2"}), One({"5"}), One({"4"})>>, <<One({"0"})>> >>),
    One({"7"}), Rep(Digits, 8, 8, TRUE), Close("phone")>>

\* (?P<date>\d{1,2}/\d{1,2}/\d{2,4})
date_rx ==
  <<Open("date"), Rep(Digits, 1, 2, TRUE), One({"/"}), Rep(Digits, 1, 2, TRUE),
    One({"/"}), Rep(Digits, 2, 4, TRUE), Close("date")>>

\* (?P<time>\d{1,2}:\d{2}\s?(?:AM|PM))
time_rx ==
  <<Open("time"), Rep(Digits, 1, 2, TRUE), One({":"}), Rep(Digits, 2, 2, TRUE),
    Opt(WhiteSpace), Alt(<<Lit(W_AM), Lit(W_PM)>>), Close("time")>>

\* (?P<code>[A-Z0-9]{8,12}), letters of either case under re.IGNORECASE
code_rx == <<Open("code"), Rep(Letters \cup Digits, 8, 12, TRUE), Close("code")>>

\* (?P<name>.+?)
name_rx == <<Open("name"), Rep(AnyChar, 1, -1, FALSE), Close("name")>>

\* \s*on\s*<date>\s*at\s*<time>
OnDateAtTime ==
  <<Sp0>> \o Lit(W_on) \o <<Sp0>> \o date_rx \o <<Sp0>> \o Lit(W_at) \o <<Sp0>> \o time_rx

\* <code>\s*Confirmed\.?\s*
CodeConfirmed ==
  code_rx \o <<Sp0>> \o Lit(W_Confirmed) \o <<Opt({"."}), Sp0>>

\* You\s*have\s*received\s*Ksh\s*<amount>\s*from\s+
YouHaveReceived ==
  Lit(W_You) \o <<Sp0>> \o Lit(W_have) \o <<Sp0>> \o Lit(W_received) \o <<Sp0>>
    \o Lit(W_Ksh) \o <<Sp0>> \o amount_rx \o <<Sp0>> \o Lit(W_from) \o <<Sp1>>

received_person ==
  CodeConfirmed \o YouHaveReceived \o name_rx \o <<Sp1>> \o phone_rx \o OnDateAtTime

sent_person ==
  CodeConfirmed \o Lit(W_Ksh) \o <<Sp0>> \o amount_rx \o <<Sp0>> \o Lit(W_sent)
    \o <<Sp0>> \o Lit(W_to) \o <<Sp1>> \o name_rx \o <<Sp1>> \o phone_rx \o OnDateAtTime

paid_merchant ==
  CodeConfirmed \o Lit(W_Ksh) \o <<Sp0>> \o amount_rx \o <<Sp0>> \o Lit(W_paid)
    \o <<Sp0>> \o Lit(W_to) \o <<Sp1>> \o name_rx \o OnDateAtTime

received_business ==
  CodeConfirmed \o YouHaveReceived \o name_rx \o OnDateAtTime

N_received_person == <<"r","e","c","e","i","v","e","d","_","p","e","r","s","o","n">>

N_sent_person == <<"s","e","n","t","_","p","e","r","s","o","n">>

N_paid_merchant == <<"p","a","i","d","_","m","e","r","c","h","a","n","t">>

N_received_business == <<"r","e","c","e","i","v","e","d","_","b","u","s","i","n","e","s","s">>

\* the four patterns with the one without a phone tried first
patterns_Reversed ==
  << [name |-> N_received_business, pat |-> received_business],
     [name |-> N_paid_merchant, pat |-> paid_merchant],
     [name |-> N_sent_person, pat |-> sent_person],
     [name |-> N_received_person, pat |-> received_person] >>

\* self.patterns, self.mpesa_patterns: (pattern_name, pattern), in order
patterns ==
  << [name |-> N_received_person, pat |-> received_person],
     [name |-> N_sent_person, pat |-> sent_person],
     [name |-> N_paid_merchant, pat |-> paid_merchant],
     [name |-> N_received_business, pat |-> received_business] >>

\* the first pattern of the list that re.search finds in text, and its match
RECURSIVE FirstMatch(_, _, _)
FirstMatch(pats, i, text) ==
  IF i > Len(pats) THEN [name |-> NoneStr, m |-> NoMatch]
  ELSE LET m == Search(pats[i].pat, text)
       IN IF m.ok THEN [name |-> pats[i].name, m |-> m]
          ELSE FirstMatch(pats, i + 1, text)

\* ------------------------------------------------------------ MPESAParser

T_mpesa == <<"m","p","e","s","a">>

T_m_pesa == <<"m","-","p","e","s","a">>

T_MPESA == <<"M","P","E","S","A">>

T_plus254 == <<"+","2","5","4">>

\* mpesa_indicators of is_mpesa_message
mpesa_indicators ==
  {<<"m","p","e","s","a">>,
   <<"m","-","p","e","s","a">>,
   <<"c","o","n","f","i","r","m","e","d">>,
   <<"k","s","h">>,
   <<"s","e","n","t">>,
   <<"r","e","c","e","i","v","e","d">>,
   <<"p","a","i","d">>}

\* isinstance(x, str): a JSON null arrives as None
IsStr(x) == x # NoneStr

\* Python's truth of a text value: None and '' are false
Truthy(x) == x # NoneStr /\ x # <<>>

\* MPESAParser._normalize_phone
_normalize_phone(phone) ==
  IF ~Truthy(phone) THEN NoneStr
  ELSE LET digits == Filter(phone, Digits)
       IN IF StartsWith(digits, <<"0">>) THEN T_plus254 \o DropFirst(digits, 1)
          ELSE IF StartsWith(digits, <<"2","5","4">>) THEN T_plus254 \o DropFirst(digits, 3)
          ELSE IF Len(digits) = 9 /\ StartsWith(digits, <<"7">>) THEN T_plus254 \o digits
          ELSE IF ~StartsWith(phone, <<"+">>) THEN <<"+">> \o digits
          ELSE phone

\* int(s) of a text of digits
RECURSIVE IntOf(_)
IntOf(ds) ==
  IF ds = <<>> THEN 0 ELSE 10 * IntOf(SubSeq(ds, 1, Len(ds) - 1)) + DigitVal(ds[Len(ds)])

\* s.split(sep) of a text with one-character separator sep
RECURSIVE Split(_, _)
Split(s, sep) ==
  IF \A i \in 1..Len(s) : s[i] # sep THEN <<s>>
  ELSE LET i == Min({j \in 1..Len(s) : s[j] = sep})
       IN <<SubSeq(s, 1, i - 1)>> \o Split(DropFirst(s, i), sep)

AllDigits(s) == \A i \in 1..Len(s) : s[i] \in Digits

IsLeap(y) == (y % 4 = 0 /\ y % 100 # 0) \/ y % 400 = 0

DaysIn(y, m) ==
  IF m = 2 THEN (IF IsLeap(y) THEN 29 ELSE 28)
  ELSE IF m \in {4, 6, 9, 11} THEN 30 ELSE 31

NoneDate == [set |-> FALSE, year |-> 0, month |-> 0, day |-> 0, hour |-> 0, minute |-> 0]

\* a field of one or two digits that strptime reads as a number of lo..hi
\* (%d, %m, %I: no 0 and no 00; %M: one or two digits)
FieldIn(f, lo, hi) ==
  Len(f) \in {1, 2} /\ AllDigits(f) /\ IntOf(f) >= lo /\ IntOf(f) <= hi

\* datetime.strptime(date_str + " " + clean_time, date_format + " %I:%M%p")
\* with the year of two digits (%y, yearDigits = 2) or four (%Y); NoneDate
\* stands for the ValueError
Strptime(date_str, clean_time, yearDigits) ==
  LET dp == Split(date_str, "/")
      tp == Split(clean_time, ":")
      mer == IF Len(tp) = 2 /\ Len(tp[2]) >= 2
             THEN SubSeq(tp[2], Len(tp[2]) - 1, Len(tp[2])) ELSE <<>>
      mins == IF Len(tp) = 2 /\ Len(tp[2]) >= 2
              THEN SubSeq(tp[2], 1, Len(tp[2]) - 2) ELSE <<>>
      shape == /\ Len(dp) = 3 /\ Len(tp) = 2
               /\ FieldIn(dp[1], 1, 31) /\ FieldIn(dp[2], 1, 12)
               /\ Len(dp[3]) = yearDigits /\ AllDigits(dp[3])
               /\ FieldIn(tp[1], 1, 12) /\ FieldIn(mins, 0, 59)
               /\ mer \in {W_AM, W_PM}
      yy == IntOf(dp[3])
      year == IF yearDigits = 4 THEN yy
              ELSE IF yy <= 68 THEN 2000 + yy ELSE 1900 + yy
      h == IntOf(tp[1]) % 12
  IN IF shape /\ year >= 1 /\ IntOf(dp[1]) <= DaysIn(year, IntOf(dp[2]))
     THEN [set |-> TRUE, year |-> year, month |-> IntOf(dp[2]), day |-> IntOf(dp[1]),
           hour |-> IF mer = W_PM THEN h + 12 ELSE h, minute |-> IntOf(mins)]
     ELSE NoneDate

\* MPESAParser._parse_datetime: the local time (UTC+3) the two texts name
_parse_datetime(date_str, time_str) ==
  IF ~Truthy(date_str) \/ ~Truthy(time_str) THEN NoneDate
  ELSE LET clean_time == Filter(Upper(time_str), Alphabet \ {" "})
           two == Strptime(date_str, clean_time, 2)
       IN IF two.set THEN two ELSE Strptime(date_str, clean_time, 4)

RECURSIVE LStripZeros(_)
LStripZeros(s) ==
  IF s # <<>> /\ Head(s) = "0" THEN LStripZeros(Tail(s)) ELSE s

NoneAmount == [type |-> "None", cents |-> 0, wide |-> FALSE]

\* the number a text of the form digits[.dd] names, commas already removed:
\* its value in hundredths; wide when it has more than 8 integer digits
\* (more than DecimalField(max_digits=10, decimal_places=2) holds); ok is
\* false for the empty text, which neither Decimal() nor float() accepts
NumberOf(s) ==
  LET parts == Split(s, ".")
      ip == LStripZeros(parts[1])
      fp == IF Len(parts) = 2 THEN parts[2] ELSE <<"0","0">>
      wide == Len(ip) > 8
  IN [ok |-> s # <<>>, wide |-> wide,
      cents |-> IF wide THEN 0 ELSE 100 * IntOf(ip) + IntOf(fp)]

\* Python's truth of an amount: None and zero are false
AmountTruthy(a) == a.type # "None" /\ (a.wide \/ a.cents # 0)

\* a direction that does not follow the pattern
DirectionOf_Sent(pattern_name) == "sent"

\* the direction parse() sets for a pattern name
DirectionOf(pattern_name) ==
  IF StartsWith(pattern_name, W_received) THEN "received"
  ELSE IF StartsWith(pattern_name, W_paid) THEN "paid"
  ELSE IF StartsWith(pattern_name, W_sent) THEN "sent"
  ELSE "None"

\* Python's float is the IEEE double.  The doubles parse() meets lie next to
\* multiples of one tenth: [tenths |-> k, err |-> e] is the double
\* k/10 + e/(10 * 2^56).  Doubles in [0.5, 1) are 2^-53 (80 units) apart,
\* doubles in [1, 2) are 2^-52 (160 units) apart.
Float(k, e) == [tenths |-> k, err |-> e]

\* the literals of parse()
F_0_0 == Float(0, 0)
F_0_1 == Float(1, 4)
F_0_2 == Float(2, 8)
F_0_5 == Float(5, 0)
F_1_0 == Float(10, 0)

\* a < b of two doubles
FloatLess(a, b) == a.tenths < b.tenths \/ (a.tenths = b.tenths /\ a.err < b.err)

\* the double nearest k/10 + e/(10 * 2^56), a number in [0.5, 2); a tie
\* goes to the double with the even mantissa
FloatRound(k, e) ==
  LET upper == k > 10 \/ (k = 10 /\ e >= 0)
      ulp == IF upper THEN 160 ELSE 80
      \* 2^56 is 96 modulo 160 and 256 modulo 320
      r == (k * (IF upper THEN 256 ELSE 96) + e) % (2 * ulp)
      low == r % ulp
      down == 2 * low < ulp \/ (2 * low = ulp /\ r < ulp)
  IN Float(k, IF low = 0 THEN e ELSE IF down THEN e - low ELSE e + (ulp - low))

\* a + b of two doubles whose sum lies in [0.5, 2): the exact sum, rounded
FloatAdd(a, b) == FloatRound(a.tenths + b.tenths, a.err + b.err)

\* min(a, b) of two doubles
FloatMin(a, b) == IF FloatLess(b, a) THEN b ELSE a

\* the draft parse() starts from
EmptyDraft ==
  [raised |-> "None", provider |-> "None", direction |-> "None", amount |-> NoneAmount,
   name |-> NoneStr, phone |-> NoneStr, date |-> NoneStr, time |-> NoneStr,
   tx_code |-> NoneStr, tx_datetime_local |-> NoneDate,
   parsing_confidence |-> F_0_0, parsing_errors |-> <<>>]

\* the confidence parse() scores: 0.5, += 0.2 for a true amount, += 0.2 for
\* a code, += 0.1 for a time, += 0.1 for a name, then min(confidence, 1.0)
Confidence(amount, tx_code, tx_datetime_local, name) ==
  LET c1 == IF AmountTruthy(amount) THEN FloatAdd(F_0_5, F_0_2) ELSE F_0_5
      c2 == IF Truthy(tx_code) THEN FloatAdd(c1, F_0_2) ELSE c1
      c3 == IF tx_datetime_local.set THEN FloatAdd(c2, F_0_1) ELSE c2
      c4 == IF Truthy(name) THEN FloatAdd(c3, F_0_1) ELSE c3
  IN FloatMin(c4, F_1_0)

\* a gate that lets every text through
is_mpesa_Always(message, provider_hint) == TRUE

\* is_mpesa of MPESAParser.parse: the text looks like MPESA
is_mpesa(message, provider_hint) ==
  \/ Contains(Lower(provider_hint), T_mpesa)
  \/ Contains(Lower(message), T_m_pesa)
  \/ Contains(Lower(message), T_mpesa)

\* MPESAParser.parse(message, provider_hint); raised names the exception
\* that leaves it, "None" when it returns
parse(message, provider_hint) ==
  IF ~IsStr(message)
  THEN [EmptyDraft EXCEPT !.parsing_errors = <<"Message is not a string">>]
  ELSE IF ~is_mpesa(message, provider_hint)
  THEN [EmptyDraft EXCEPT !.parsing_errors = <<"Message does not appear to be MPESA">>]
  ELSE LET f == FirstMatch(patterns, 1, message)
           amount_str == Group(f.m, message, "amount")
           num == NumberOf(Filter(amount_str, Alphabet \ {","}))
           amount == IF Truthy(amount_str)
                     THEN [type |-> "Decimal", cents |-> num.cents, wide |-> num.wide]
                     ELSE NoneAmount
           name == LET n == Strip(Group(f.m, message, "name"))
                   IN IF n = <<>> THEN NoneStr ELSE n
           date == Group(f.m, message, "date")
           time == Group(f.m, message, "time")
           tx_code == Group(f.m, message, "code")
           when == _parse_datetime(date, time)
       IN IF f.name = NoneStr
          THEN [EmptyDraft EXCEPT !.provider = "MPESA",
                                  !.parsing_errors = <<"No matching pattern found">>]
          ELSE IF Truthy(amount_str) /\ ~num.ok
          THEN [EmptyDraft EXCEPT !.provider = "MPESA", !.raised = "InvalidOperation"]
          ELSE [raised |-> "None", provider |-> "MPESA", direction |-> DirectionOf(f.name),
                amount |-> amount, name |-> name,
                phone |-> _normalize_phone(Group(f.m, message, "phone")),
                date |-> date, time |-> time, tx_code |-> tx_code,
                tx_datetime_local |-> when,
                parsing_confidence |-> Confidence(amount, tx_code, when, name),
                parsing_errors |-> <<>>]

\* MPESAParser.is_mpesa_message(message, sender_number)
is_mpesa_message(message, sender_number) ==
  IF ~IsStr(message) THEN FALSE
  ELSE \/ Contains(Upper(sender_number), T_MPESA)
       \/ \E indicator \in mpesa_indicators : Contains(Lower(message), indicator)

\* ------------------------------------------------------------- SMSFetcher

\* a normalizer that returns what it is given
_norm_phone_Same(p) == p

\* SMSFetcher._norm_phone
_norm_phone(p) ==
  IF ~Truthy(p) THEN NoneStr
  ELSE LET digits == Filter(p, Digits)
       IN IF StartsWith(digits, <<"0">>) THEN T_plus254 \o DropFirst(digits, 1)
          ELSE IF StartsWith(digits, <<"2","5","4">>) THEN T_plus254 \o DropFirst(digits, 3)
          ELSE IF Len(digits) = 9 /\ StartsWith(digits, <<"7">>) THEN T_plus254 \o digits
          ELSE IF ~StartsWith(p, <<"+">>) THEN <<"+">> \o digits ELSE p

\* SMSFetcher._to_iso_local: the local time (UTC+3) the ISO text names
_to_iso_local(d, t) ==
  IF ~Truthy(d) \/ ~Truthy(t) THEN NoneDate
  ELSE LET clean == Filter(Upper(t), Alphabet \ {" "})
           two == Strptime(d, clean, 2)
       IN IF two.set THEN two ELSE Strptime(d, clean, 4)

\* SMSFetcher.parse_mpesa(text, provider_hint); it keeps no confidence and
\* no error list, and tries the patterns whatever the provider; raised names
\* the exception that leaves it
parse_mpesa(text, provider_hint) ==
  IF ~IsStr(provider_hint)
  THEN [EmptyDraft EXCEPT !.raised = "AttributeError"]
  ELSE IF ~IsStr(text)
  THEN \* text.lower() is reached unless the hint has the brand
       IF Contains(Lower(provider_hint), T_mpesa)
       THEN [EmptyDraft EXCEPT !.provider = "MPESA"]
       ELSE [EmptyDraft EXCEPT !.raised = "AttributeError"]
  ELSE LET branded == \/ Contains(Lower(provider_hint), T_mpesa)
                      \/ Contains(Lower(text), T_m_pesa)
                      \/ Contains(Lower(text), T_mpesa)
           f == FirstMatch(patterns, 1, text)
           amt == Group(f.m, text, "amount")
           num == NumberOf(Filter(amt, Alphabet \ {","}))
           name == LET n == Strip(Group(f.m, text, "name"))
                   IN IF n = <<>> THEN NoneStr ELSE n
           date == Group(f.m, text, "date")
           time == Group(f.m, text, "time")
       IN IF f.name = NoneStr
          THEN [EmptyDraft EXCEPT !.provider = IF branded THEN "MPESA" ELSE "None"]
          ELSE IF Truthy(amt) /\ ~num.ok
          THEN [EmptyDraft EXCEPT !.raised = "ValueError"]
          ELSE [EmptyDraft EXCEPT
                  !.provider = "MPESA",
                  !.direction = IF StartsWith(f.name, W_received) THEN "received"
                                ELSE IF StartsWith(f.name, W_paid) THEN "paid"
                                ELSE "sent",
                  !.amount = IF Truthy(amt)
                             THEN [type |-> "float", cents |-> num.cents, wide |-> num.wide]
                             ELSE NoneAmount,
                  !.name = name,
                  !.phone = _norm_phone(Group(f.m, text, "phone")),
                  !.date = date, !.time = time,
                  !.tx_code = Group(f.m, text, "code"),
                  !.tx_datetime_local = _to_iso_local(date, time)]

\* \bM-?PESA\b
mpesa_word_rx ==
  <<WordBoundary>> \o Lit(<<"M">>) \o <<Opt({"-"})>> \o Lit(W_PESA) \o <<WordBoundary>>

\* mpesa_mask of fetch_and_store_sms for one row: str.contains of the number
\* and of the message, case=False, na=False
mpesa_mask(number, message) ==
  \/ (IsStr(number) /\ Contains(Upper(number), T_MPESA))
  \/ (IsStr(message) /\ Search(mpesa_word_rx, message).ok)

\* ------------------------------------------------------------- timestamps
\* Times are whole seconds since the epoch.  A naive datetime is read in the
\* zone of the process, taken to be UTC (Django's TIME_ZONE default of a new
\* project); the texts of the model name times before 2038.

LeapsThrough(y) == (y \div 4) - (y \div 100) + (y \div 400)

RECURSIVE DaysBeforeMonth(_, _)
DaysBeforeMonth(y, m) ==
  IF m <= 1 THEN 0 ELSE DaysIn(y, m - 1) + DaysBeforeMonth(y, m - 1)

\* datetime(y, mo, d, h, mi, s).timestamp()
Epoch(y, mo, d, h, mi, s) ==
  LET days == 365 * (y - 1970) + LeapsThrough(y - 1) - LeapsThrough(1969)
              + DaysBeforeMonth(y, mo) + d - 1
  IN days * 86400 + h * 3600 + mi * 60 + s

NoTime == [ok |-> FALSE, ts |-> 0]

\* a field of exactly n digits
Digits_n(f, n) == Len(f) = n /\ AllDigits(f)

\* a reader of dates that takes every text for a date
DateOf_Any(text, strict) == [ok |-> TRUE, y |-> 2025, m |-> 8, d |-> 12]

\* the date a text YYYY-MM-DD names (datetime.fromisoformat, and strptime
\* with %Y-%m-%d when strict is false: then month and day may have one digit)
DateOf(text, strict) ==
  LET p == Split(text, "-")
      shape == /\ IsStr(text) /\ Len(p) = 3 /\ Digits_n(p[1], 4)
               /\ IF strict THEN Digits_n(p[2], 2) /\ Digits_n(p[3], 2)
                  ELSE FieldIn(p[2], 1, 12) /\ FieldIn(p[3], 1, 31)
      ok == /\ shape /\ IntOf(p[1]) >= 1 /\ IntOf(p[2]) \in 1..12
            /\ IntOf(p[3]) >= 1 /\ IntOf(p[3]) <= DaysIn(IntOf(p[1]), IntOf(p[2]))
  IN IF ok THEN [ok |-> TRUE, y |-> IntOf(p[1]), m |-> IntOf(p[2]), d |-> IntOf(p[3])]
     ELSE [ok |-> FALSE, y |-> 0, m |-> 0, d |-> 0]

\* the time of day a text HH:MM:SS names (strptime with %H:%M:%S when
\* strict is false; datetime.fromisoformat, which also takes HH:MM and HH,
\* when strict is true)
TimeOf(text, strict) ==
  LET p == Split(text, ":")
      f(i) == IF i <= Len(p) THEN p[i] ELSE <<"0","0">>
      shape == /\ IsStr(text)
               /\ IF strict
                  THEN Len(p) \in 1..3 /\ \A i \in 1..Len(p) : Digits_n(p[i], 2)
                  ELSE Len(p) = 3 /\ \A i \in 1..3 : Len(p[i]) \in {1, 2} /\ AllDigits(p[i])
      ok == /\ shape /\ IntOf(f(1)) <= 23 /\ IntOf(f(2)) <= 59
            /\ IntOf(f(3)) <= (IF strict THEN 59 ELSE 61)
  IN IF ok THEN [ok |-> TRUE, h |-> IntOf(f(1)), mi |-> IntOf(f(2)), s |-> IntOf(f(3))]
     ELSE [ok |-> FALSE, h |-> 0, mi |-> 0, s |-> 0]

\* m.get(k, default) of a JSON object; a JSON null is None
Get(m, k, default) == IF k \in DOMAIN m THEN m[k] ELSE default

\* str(x) of a JSON value: of None it is 'None'
StrOf(x) == IF x = NoneStr THEN <<"N","o","n","e">> ELSE x

\* s[:n]
Take(s, n) == IF n >= Len(s) THEN s ELSE SubSeq(s, 1, n)

\* the first of the keys ks that message has, with a value whose first ten
\* characters int() reads
RECURSIVE NumericField(_, _, _)
NumericField(message, ks, i) ==
  IF i > Len(ks) THEN NoTime
  ELSE LET v == Take(StrOf(Get(message, ks[i], NoneStr)), 10)
       IN IF ks[i] \in DOMAIN message /\ v # <<>> /\ AllDigits(v)
          THEN [ok |-> TRUE, ts |-> IntOf(v)]
          ELSE NumericField(message, ks, i + 1)

\* strptime(tr[:14], "%Y%m%d%H%M%S").timestamp(), for 14 digits
CompactTime(tr14) ==
  LET y == IntOf(SubSeq(tr14, 1, 4))
      mo == IntOf(SubSeq(tr14, 5, 6))
      d == IntOf(SubSeq(tr14, 7, 8))
      h == IntOf(SubSeq(tr14, 9, 10))
      mi == IntOf(SubSeq(tr14, 11, 12))
      s == IntOf(SubSeq(tr14, 13, 14))
  IN IF /\ AllDigits(tr14) /\ y >= 1 /\ mo \in 1..12 /\ d >= 1 /\ d <= DaysIn(y, mo)
        /\ h <= 23 /\ mi <= 59 /\ s <= 61
     THEN [ok |-> TRUE, ts |-> Epoch(y, mo, d, h, mi, s)]
     ELSE NoTime

\* datetime.fromisoformat(date + " " + hour).timestamp()
DateHourTime(date, hour) ==
  LET d == DateOf(date, TRUE)
      h == TimeOf(hour, TRUE)
  IN IF Truthy(date) /\ Truthy(hour) /\ d.ok /\ h.ok
     THEN [ok |-> TRUE, ts |-> Epoch(d.y, d.m, d.d, h.h, h.mi, h.s)]
     ELSE NoTime

\* a _to_unix that reads the wall clock only
_to_unix_Now(message, now) == now

\* SMSFetcher._to_unix(message), at wall-clock time now
_to_unix(message, now) ==
  LET num == NumericField(message, <<"timestamp_unix", "time", "ts">>, 1)
      tr == StrOf(Get(message, "time_received", <<>>))
      compact == IF Len(tr) >= 14 /\ AllDigits(SubSeq(tr, 1, 4))
                 THEN CompactTime(SubSeq(tr, 1, 14)) ELSE NoTime
      dh == DateHourTime(Get(message, "date", NoneStr), Get(message, "hour", NoneStr))
  IN IF num.ok THEN num.ts
     ELSE IF AllDigits(tr) /\ Len(tr) = 13 THEN IntOf(SubSeq(tr, 1, 10))
     ELSE IF AllDigits(tr) /\ Len(tr) = 10 THEN IntOf(tr)
     ELSE IF compact.ok THEN compact.ts
     ELSE IF dh.ok THEN dh.ts
     ELSE now

\* a or b of two JSON values
OrElse(a, b) == IF Truthy(a) THEN a ELSE b

\* the row normalize() builds of one record
NormalizeRow(m, now) ==
  [number |-> Get(m, "number", <<>>),
   message |-> Get(m, "message", <<>>),
   guid |-> OrElse(Get(m, "guid", NoneStr), OrElse(Get(m, "guid_message", NoneStr), <<>>)),
   timestamp_unix |-> _to_unix(m, now),
   raw_data |-> m]

\* the rows in the order of the permutation f
RECURSIVE Reindex(_, _, _)
Reindex(rows, f, n) ==
  IF n = 0 THEN <<>> ELSE Append(Reindex(rows, f, n - 1), rows[f[n]])

\* df.sort_values("timestamp_unix", ascending=False).reset_index(drop=True).
\* The kind of sort is the default, quicksort, which is not stable: numpy
\* sorts short arrays by insertion and partitions longer ones, or uses a
\* vectorized sort, as the build has it.  The rows come out with timestamps
\* descending; rows of equal timestamp come out in an order the build picks.
sort_values(rows) ==
  {Reindex(rows, f, Len(rows)) :
     f \in {g \in Permutations(1..Len(rows)) :
              \A i \in 1..(Len(rows) - 1) :
                 rows[g[i]].timestamp_unix >= rows[g[i + 1]].timestamp_unix}}

\* the rows normalize() builds, in the order of the records
RECURSIVE Rows(_, _, _)
Rows(records, now, n) ==
  IF n = 0 THEN <<>> ELSE Append(Rows(records, now, n - 1), NormalizeRow(records[n], now))

\* SMSFetcher.normalize(records), at wall-clock time now: the data frames it
\* may return
normalize(records, now) == sort_values(Rows(records, now, Len(records)))

\* ------------------------------------------------ the SMS of the gateway
\* The texts the gateway holds: those of test_webhook.py and of
\* test_webhook_real.py, and variants of them.

S_MPESA == <<"M","P","E","S","A">>

S_Safaricom == <<"S","a","f","a","r","i","c","o","m">>

S_person == <<"+","2","5","4","7","0","0","0","0","0","0","0","1">>

\* ABC12345 Confirmed. You have received Ksh 5,000.00 from John Doe +254712345678 on 20/01/25 at 10:15 AM
B_received ==
  <<
    "A","B","C","1","2","3","4","5"," ","C","o","n","f","i","r","m","e","d","."," ","Y","o","u",
    " ","h","a","v","e"," ","r","e","c","e","i","v","e","d"," ","K","s","h"," ","5",",","0","0",
    "0",".","0","0"," ","f","r","o","m"," ","J","o","h","n"," ","D","o","e"," ","+","2","5","4",
    "7","1","2","3","4","5","6","7","8"," ","o","n"," ","2","0","/","0","1","/","2","5"," ","a",
    "t"," ","1","0",":","1","5"," ","A","M"
  >>

\* DEF45678 Confirmed. Ksh 1,000.00 paid to ShopRite Supermarket on 20/01/25 at 2:45 PM
B_paid ==
  <<
    "D","E","F","4","5","6","7","8"," ","C","o","n","f","i","r","m","e","d","."," ","K","s","h",
    " ","1",",","0","0","0",".","0","0"," ","p","a","i","d"," ","t","o"," ","S","h","o","p","R",
    "i","t","e"," ","S","u","p","e","r","m","a","r","k","e","t"," ","o","n"," ","2","0","/","0",
    "1","/","2","5"," ","a","t"," ","2",":","4","5"," ","P","M"
  >>

\* You have received 100SMS with expiry @Ksh5.00. Your balance is KSH 25.50
B_bundle ==
  <<
    "Y","o","u"," ","h","a","v","e"," ","r","e","c","e","i","v","e","d"," ","1","0","0","S","M",
    "S"," ","w","i","t","h"," ","e","x","p","i","r","y"," ","@","K","s","h","5",".","0","0",".",
    " ","Y","o","u","r"," ","b","a","l","a","n","c","e"," ","i","s"," ","K","S","H"," ","2","5",
    ".","5","0"
  >>

\* Hey, how are you doing? Can you call me back?
B_hello ==
  <<
    "H","e","y",","," ","h","o","w"," ","a","r","e"," ","y","o","u"," ","d","o","i","n","g","?",
    " ","C","a","n"," ","y","o","u"," ","c","a","l","l"," ","m","e"," ","b","a","c","k","?"
  >>

\* Your M-PESA balance is low
B_balance ==
  <<
    "Y","o","u","r"," ","M","-","P","E","S","A"," ","b","a","l","a","n","c","e"," ","i","s"," ",
    "l","o","w"
  >>

\* LIPANAMPESA2 offer
B_lipa ==
  <<
    "L","I","P","A","N","A","M","P","E","S","A","2"," ","o","f","f","e","r"
  >>

\* ABCD123456 Confirmed. Ksh , paid to X on 1/1/25 at 1:00 AM
B_comma ==
  <<
    "A","B","C","D","1","2","3","4","5","6"," ","C","o","n","f","i","r","m","e","d","."," ","K",
    "s","h"," ",","," ","p","a","i","d"," ","t","o"," ","X"," ","o","n"," ","1","/","1","/","2",
    "5"," ","a","t"," ","1",":","0","0"," ","A","M"
  >>

\* XYZ98765 Confirmed. You have received Ksh 0.00 from Jane Smith 0798765432 on 20/01/25 at 11:30 AM
B_zero ==
  <<
    "X","Y","Z","9","8","7","6","5"," ","C","o","n","f","i","r","m","e","d","."," ","Y","o","u",
    " ","h","a","v","e"," ","r","e","c","e","i","v","e","d"," ","K","s","h"," ","0",".","0","0",
    " ","f","r","o","m"," ","J","a","n","e"," ","S","m","i","t","h"," ","0","7","9","8","7","6",
    "5","4","3","2"," ","o","n"," ","2","0","/","0","1","/","2","5"," ","a","t"," ","1","1",":",
    "3","0"," ","A","M"
  >>

R_received ==
  [guid |-> <<"g","1">>, number |-> S_MPESA, message |-> B_received,
   date |-> <<"2","0","2","5","-","0","1","-","2","0">>,
   hour |-> <<"1","0",":","1","5",":","0","0">>,
   time_received |-> <<"2","0","2","5","-","0","1","-","2","0"," ","1","0",":","1","4",":","5","0">>]

R_reused ==
  [guid |-> <<"g","1">>, number |-> S_MPESA, message |-> B_paid,
   date |-> <<"2","0","2","5","-","0","1","-","2","0">>,
   hour |-> <<"1","0",":","1","6",":","0","0">>,
   time_received |-> <<"2","0","2","5","-","0","1","-","2","0"," ","1","0",":","1","5",":","5","0">>]

R_paid ==
  [guid |-> <<"g","2">>, number |-> S_MPESA, message |-> B_paid,
   date |-> <<"2","0","2","5","-","0","1","-","2","0">>,
   hour |-> <<"1","4",":","4","5",":","0","0">>,
   time_received |-> <<"2","0","2","5","-","0","1","-","2","0"," ","1","4",":","4","4",":","3","0">>]

R_bundle ==
  [guid |-> <<"g","3">>, number |-> S_Safaricom, message |-> B_bundle,
   date |-> <<"2","0","2","5","-","0","8","-","1","2">>,
   hour |-> <<"1","6",":","3","1",":","0","0">>,
   time_received |-> <<"2","0","2","5","-","0","8","-","1","2"," ","1","6",":","3","1",":","0","0">>]

R_hello ==
  [guid |-> <<"g","4">>, number |-> S_person, message |-> B_hello,
   date |-> <<"2","0","2","5","-","0","8","-","1","2">>,
   hour |-> <<"1","6",":","3","2",":","0","0">>,
   time_received |-> <<"2","0","2","5","-","0","8","-","1","2"," ","1","6",":","3","2",":","0","0">>]

R_comma ==
  [guid |-> <<"g","5">>, number |-> S_MPESA, message |-> B_comma,
   date |-> <<"2","0","2","5","-","0","9","-","0","1">>,
   hour |-> <<"0","1",":","0","0",":","0","0">>,
   time_received |-> <<"2","0","2","5","-","0","9","-","0","1"," ","0","1",":","0","0",":","0","0">>]

R_zero ==
  [guid |-> <<"g","6">>, number |-> S_MPESA, message |-> B_zero,
   date |-> <<"2","0","2","5","-","0","1","-","2","0">>,
   hour |-> <<"1","1",":","3","0",":","0","0">>,
   time_received |-> <<"2","0","2","5","-","0","1","-","2","0"," ","1","1",":","2","9",":","4","5">>]

R_lipa ==
  [guid |-> <<"g","7">>, number |-> S_person, message |-> B_lipa,
   date |-> <<"2","0","2","5","-","0","1","-","2","1">>,
   hour |-> <<"0","9",":","0","0",":","0","0">>,
   time_received |-> <<"2","0","2","5","-","0","1","-","2","1"," ","0","9",":","0","0",":","0","0">>]

R_balance ==
  [guid |-> <<"g","8">>, number |-> S_MPESA, message |-> B_balance,
   date |-> <<"2","0","2","5","-","0","1","-","2","1">>,
   hour |-> <<"0","9",":","3","0",":","0","0">>,
   time_received |-> <<"2","0","2","5","-","0","1","-","2","1"," ","0","9",":","3","0",":","0","0">>]

R_unbranded ==
  [guid |-> <<"g","9">>, number |-> S_person, message |-> B_received,
   date |-> <<"2","0","2","5","-","0","1","-","2","2">>,
   hour |-> <<"0","8",":","0","0",":","0","0">>,
   time_received |-> <<"2","0","2","5","-","0","1","-","2","2"," ","0","8",":","0","0",":","0","0">>]

\* the inbox of the gateway, in the order the API lists it
Inbox ==
  <<R_received, R_reused, R_paid, R_bundle, R_hello, R_comma, R_zero, R_lipa, R_balance, R_unbranded>>

\* ------------------------------------------------------- model bounds
\* the number of requests (webhook deliveries and poll cycles) of a run
MaxOps == 2

\* the number of records of a batch that normalize is applied to on its own
MaxRows == 3

\* the number of records of one poll batch
MaxBatch == 2

\* the poll cycles that can run at once (FetchSMSView and AutoFetchSMSView
\* requests are served concurrently)
Pollers == 1..2

\* wall-clock times of a run, seconds since the epoch
Clock == {1755000000 + 60 * k : k \in {0}}

\* ---------------------------------------------------- what requests carry
\* a delivery whose payload lacks the guid
R_no_guid ==
  [number |-> S_person, message |-> B_hello,
   date |-> R_hello.date, hour |-> R_hello.hour, time_received |-> R_hello.time_received]

\* a delivery whose date is not YYYY-MM-DD
R_bad_date == [R_hello EXCEPT !.guid = <<"g","0">>, !.date = <<"1","2","/","0","8","/","2","5">>]

\* the JSON objects the gateway posts to the webhook
Payloads == Range(Inbox) \cup {R_no_guid, R_bad_date}

\* a record of the inbox with neither guid nor guid_message
R_anonymous ==
  [number |-> S_Safaricom, message |-> B_bundle,
   date |-> R_bundle.date, hour |-> R_bundle.hour, time_received |-> R_bundle.time_received]

\* the batches a poll receives: the inbox as the gateway lists it, MaxBatch
\* records at a time, and a batch of two records without identifier
Batches ==
  {SubSeq(Inbox, i, Min({i + MaxBatch - 1, Len(Inbox)})) :
     i \in {k \in 1..Len(Inbox) : (k - 1) % MaxBatch = 0}}
  \cup {<<R_no_guid, R_anonymous>>}

\* The extractors are pure functions of the text and the sender.  Their
\* results for the texts of the gateway are tabulated when a run starts, and
\* the handlers read the table where the code calls the function.
VARIABLE extracted

Extracted ==
  {[number |-> r.number, message |-> r.message,
    is_mpesa_message |-> is_mpesa_message(r.message, r.number),
    parse |-> parse(r.message, r.number),
    mpesa_mask |-> mpesa_mask(r.number, r.message),
    parse_mpesa |-> parse_mpesa(r.message, r.number)] : r \in Payloads}

ExtractedOf(message, number) ==
  CHOOSE e \in extracted : e.message = message /\ e.number = number

\* ------------------------------------------------------------ the store
\* a table whose guid column is not unique
MessageCreate_NoUnique(msgs, row) ==
  IF row.guid = NoneStr \/ row.number = NoneStr \/ row.message = NoneStr
  THEN [ok |-> FALSE, rows |-> msgs]
  ELSE [ok |-> TRUE, rows |-> Append(msgs, row)]

\* SMSMessage.objects.create(...): the guid is unique and no column takes
\* NULL; pk is the position of the row
MessageCreate(msgs, row) ==
  IF \/ row.guid = NoneStr \/ row.number = NoneStr \/ row.message = NoneStr
     \/ \E i \in DOMAIN msgs : msgs[i].guid = row.guid
  THEN [ok |-> FALSE, rows |-> msgs]
  ELSE [ok |-> TRUE, rows |-> Append(msgs, row)]

\* a row that is born processed
NewMessage_Processed(guid, number, message, time_received) ==
  [guid |-> guid, number |-> number, message |-> message,
   time_received |-> time_received, status |-> "processed", processing_notes |-> ""]

\* the row of a new SMSMessage, with the defaults of the model's fields
NewMessage(guid, number, message, time_received) ==
  [guid |-> guid, number |-> number, message |-> message,
   time_received |-> time_received, status |-> "received", processing_notes |-> ""]

\* a save that writes the status of every row of the table
mark_as_processed_Every(msgs, pk, notes) ==
  [i \in DOMAIN msgs |->
     [msgs[i] EXCEPT !.status = "processed", !.processing_notes = notes]]

\* SMSMessage.mark_as_processed(notes), saved
mark_as_processed(msgs, pk, notes) ==
  [msgs EXCEPT ![pk].status = "processed", ![pk].processing_notes = notes]

\* SMSMessage.mark_as_failed(notes), saved
mark_as_failed(msgs, pk, notes) ==
  [msgs EXCEPT ![pk].status = "failed", ![pk].processing_notes = notes]

\* the row of a new MPESATransaction of message pk, of an extractor draft
NewTransaction(pk, d, confidence, errors) ==
  [sms_message |-> pk, provider |-> d.provider, direction |-> d.direction,
   amount |-> d.amount, name |-> d.name, phone |-> d.phone, tx_code |-> d.tx_code,
   tx_date |-> d.date, tx_time |-> d.time, tx_datetime_local |-> d.tx_datetime_local,
   parsing_confidence |-> confidence, parsing_errors |-> errors]

\* a create that writes the row twice
TxCreate_Twice(txs, row) ==
  IF \/ row.provider = "None" \/ row.direction = "None"
     \/ row.name = NoneStr \/ row.phone = NoneStr \/ row.tx_code = NoneStr
     \/ row.tx_date = NoneStr \/ row.tx_time = NoneStr
     \/ row.amount.wide
  THEN [ok |-> FALSE, rows |-> txs]
  ELSE [ok |-> TRUE, rows |-> txs \o <<row, row>>]

\* MPESATransaction.objects.create(...): only amount and tx_datetime_local
\* take NULL, and an amount of more than max_digits digits cannot be
\* quantized (decimal.InvalidOperation); the amount is stored as a Decimal
TxCreate(txs, row) ==
  IF \/ row.provider = "None" \/ row.direction = "None"
     \/ row.name = NoneStr \/ row.phone = NoneStr \/ row.tx_code = NoneStr
     \/ row.tx_date = NoneStr \/ row.tx_time = NoneStr
     \/ row.amount.wide
  THEN [ok |-> FALSE, rows |-> txs]
  ELSE [ok |-> TRUE,
        rows |-> Append(txs, [row EXCEPT !.amount =
                   IF row.amount.type = "None" THEN NoneAmount
                   ELSE [type |-> "Decimal", cents |-> row.amount.cents, wide |-> FALSE]])]

\* MPESATransaction.is_valid
is_valid(tx) ==
  /\ Truthy(tx.tx_code)
  /\ AmountTruthy(tx.amount)
  /\ tx.direction # "None"

\* the pk of the SMSMessage with this guid, 0 when there is none
PkOf(msgs, guid) ==
  IF \E i \in DOMAIN msgs : msgs[i].guid = guid
  THEN CHOOSE i \in DOMAIN msgs : msgs[i].guid = guid
  ELSE 0

\* ---------------------------------------------------------- the webhook
\* ['date', 'hour', 'time_received', 'message', 'number', 'guid']
required_fields == {"date", "hour", "time_received", "message", "number", "guid"}

\* datetime.strptime(text, '%Y-%m-%d %H:%M:%S'), as seconds since the epoch
DateTimeOf(text) ==
  LET p == Split(text, " ")
      d == DateOf(p[1], FALSE)
      h == TimeOf(p[2], FALSE)
  IN IF IsStr(text) /\ Len(p) = 2 /\ d.ok /\ h.ok
     THEN [ok |-> TRUE, ts |-> Epoch(d.y, d.m, d.d, h.h, h.mi, h.s)]
     ELSE NoTime

\* what a request leaves: the two tables, the status code of the response,
\* the status of its WebhookLog row, and whether MPESATransaction.objects.create
\* was called and returned ("created") or raised ("failed")
Response(msgs, txs, status_code, log_status, tx) ==
  [messages |-> msgs, transactions |-> txs,
   status_code |-> status_code, log_status |-> log_status, tx |-> tx]

\* WebhookView.post, after the WebhookLog row is created; req.json_ok tells
\* whether json.loads takes the body, req.payload is the object it returns
WebhookPost(msgs, txs, req) ==
  IF ~req.json_ok THEN Response(msgs, txs, 400, "error", "none")
  ELSE
  LET payload == req.payload
      missing_fields == {f \in required_fields : f \notin DOMAIN payload}
  IN
  IF missing_fields # {} THEN Response(msgs, txs, 400, "invalid", "none")
  ELSE
  LET date == DateOf(payload.date, FALSE)
      hour == TimeOf(payload.hour, FALSE)
      time_received == DateTimeOf(payload.time_received)
      created == MessageCreate(msgs, NewMessage(payload.guid, payload.number,
                                                payload.message, time_received.ts))
      pk == Len(created.rows)
      e == ExtractedOf(payload.message, payload.number)
      parsed_data == e.parse
      tx == TxCreate(txs, NewTransaction(pk, parsed_data,
                                         parsed_data.parsing_confidence,
                                         [type |-> "list", value |-> parsed_data.parsing_errors]))
  IN
  IF ~date.ok \/ ~hour.ok \/ ~time_received.ok \/ ~created.ok
  THEN Response(msgs, txs, 500, "error", "none")
  ELSE IF e.is_mpesa_message
  THEN IF parsed_data.raised # "None"
       THEN Response(created.rows, txs, 500, "error", "none")
       ELSE IF parsed_data.direction # "None"
       THEN IF tx.ok
            THEN Response(mark_as_processed(created.rows, pk,
                            "Successfully parsed as MPESA transaction"),
                          tx.rows, 200, "success", "created")
            ELSE Response(created.rows, txs, 500, "error", "failed")
       ELSE Response(mark_as_failed(created.rows, pk, "Failed to parse MPESA transaction"),
                     txs, 200, "success", "none")
  ELSE Response(mark_as_processed(created.rows, pk, "SMS received (not MPESA)"),
                txs, 200, "success", "none")

\* ------------------------------------------------------------- the poll
\* what response.json() returns: a list of values, a dict d of values, a
\* string or null
JList(items) == [type |-> "list", items |-> items]
JDict(d) == [type |-> "dict", d |-> d]
JStr == [type |-> "str"]
JNull == [type |-> "NoneType"]

\* payload.get(key) of a dict
JGet(payload, key) == IF key \in DOMAIN payload.d THEN payload.d[key] ELSE JNull

\* an unwrapping that looks under sms before it looks under result
_unwrap_sms_SmsFirst(payload) ==
  IF payload.type = "list" THEN payload.items
  ELSE IF payload.type = "dict"
  THEN IF JGet(payload, "sms").type = "list"
       THEN payload.d["sms"].items
       ELSE IF /\ JGet(payload, "result").type = "dict"
               /\ JGet(JGet(payload, "result"), "sms").type = "list"
       THEN payload.d["result"].d["sms"].items
       ELSE <<>>
  ELSE <<>>

\* SMSFetcher._unwrap_sms
_unwrap_sms(payload) ==
  IF payload.type = "list" THEN payload.items
  ELSE IF payload.type = "dict"
  THEN IF /\ JGet(payload, "result").type = "dict"
          /\ JGet(JGet(payload, "result"), "sms").type = "list"
       THEN payload.d["result"].d["sms"].items
       ELSE IF JGet(payload, "sms").type = "list"
       THEN payload.d["sms"].items
       ELSE <<>>
  ELSE <<>>

\* what ends requests.get, raise_for_status or response.json() with an
\* exception: a timeout, a network error, an HTTP error status, a body that
\* is no JSON
FetchErrors == {"Timeout", "ConnectionError", "HTTPError", "JSONDecodeError"}

\* a fetch_inbox that returns what the response holds, whatever came of the
\* request
fetch_inbox_Partial(response) == _unwrap_sms(response.body)

\* SMSFetcher.fetch_inbox: the records of the response, unwrapped, none when
\* the request fails; body is what response.json() returns
fetch_inbox(response) ==
  IF response.error = "None" THEN _unwrap_sms(response.body) ELSE <<>>

\* the bodies in which a gateway wraps its list: under result.sms, under
\* sms, and an answer that holds no list
Wrapped ==
  {JDict([result |-> JDict([sms |-> JList(<<R_hello>>)])]),
   JDict([sms |-> JList(<<R_bundle>>)]),
   JDict([error |-> JStr])}

\* the rows of the data frame df_inbox with, for each, its mpesa_mask and,
\* where the mask holds, what parse_mpesa returns of it
Frame(df_inbox) ==
  LET n == Len(df_inbox)
  IN [i \in 1..n |->
        LET row == df_inbox[i]
            e == ExtractedOf(row.message, row.number)
        IN [guid |-> row.guid, number |-> row.number, message |-> row.message,
            received_at |-> row.timestamp_unix,
            mpesa_mask |-> e.mpesa_mask,
            parsed |-> IF e.mpesa_mask THEN e.parse_mpesa ELSE EmptyDraft]]

\* a poll cycle that is not running
Idle == [pc |-> "idle", rows |-> <<>>, idx |-> 0, stored_messages |-> 0, failed |-> 0]

\* the body of the try of the store loop of fetch_and_store_sms for one row
StoreRow(msgs, txs, row) ==
  LET created == MessageCreate(msgs, NewMessage(row.guid, row.number, row.message,
                                                row.received_at))
      pk == Len(created.rows)
      tx == TxCreate(txs, NewTransaction(pk, row.parsed, F_1_0,
                                         [type |-> "str", value |-> <<>>]))
      Left(m, x, stored, outcome, made) ==
        [messages |-> m, transactions |-> x, stored |-> stored, outcome |-> outcome,
         tx |-> made]
  IN
  IF ~created.ok THEN Left(msgs, txs, 0, "error", "none")
  ELSE IF row.mpesa_mask
  THEN IF row.parsed.direction # "None"
       THEN IF tx.ok
            THEN Left(mark_as_processed(created.rows, pk,
                        "Successfully parsed as MPESA transaction"), tx.rows, 1, "stored", "created")
            ELSE Left(created.rows, txs, 1, "error", "failed")
       ELSE Left(mark_as_failed(created.rows, pk, "Failed to parse MPESA transaction"),
                 txs, 1, "stored", "none")
  ELSE Left(mark_as_processed(created.rows, pk, "SMS received (not MPESA)"),
            txs, 1, "stored", "none")

\* FetchSMSView.post: what the caller of a poll cycle gets, of a cycle that
\* returned count Messages or that an exception left
FetchSMSViewPost(result, count) ==
  IF result = "raised"
  THEN [success |-> FALSE, status_code |-> 500, count |-> 0]
  ELSE [success |-> TRUE, status_code |-> 200, count |-> count]

\* ------------------------------------------------------ the state machine
VARIABLES
  messages,       \* the SMSMessage table, a row's pk is its position
  transactions,   \* the MPESATransaction table
  weblogs,        \* the WebhookLog table
  pollers,        \* the poll cycles: where each is in fetch_and_store_sms
  nops,           \* the requests served so far
  last,           \* what the latest step did, and to which record
  call            \* a function applied on its own: its arguments and its result

vars == <<messages, transactions, weblogs, pollers, nops, last, extracted, call>>

\* no function is applied on its own
NoCall == [fn |-> "none", done |-> FALSE]

\* no step yet
NoStep ==
  [op |-> "none", guid |-> NoneStr, number |-> NoneStr, message |-> NoneStr,
   outcome |-> "none", status_code |-> 0, tx |-> "none",
   result |-> "none", count |-> 0, offered |-> <<>>, failed |-> 0, fetch |-> "none",
   was |-> "none"]

Init ==
  /\ messages = <<>>
  /\ transactions = <<>>
  /\ weblogs = <<>>
  /\ pollers = [p \in Pollers |-> Idle]
  /\ nops = 0
  /\ last = NoStep
  /\ extracted = Extracted
  /\ call = NoCall

\* one delivery to the webhook: WebhookView.post
Webhook(req) ==
  /\ nops < MaxOps
  /\ \E r \in {WebhookPost(messages, transactions, req)} :
     LET payload == req.payload
     IN /\ messages' = r.messages
        /\ transactions' = r.transactions
        /\ weblogs' = Append(weblogs, [status |-> r.log_status, status_code |-> r.status_code])
        /\ last' = [NoStep EXCEPT
                      !.op = "webhook",
                      !.guid = IF req.json_ok THEN Get(payload, "guid", NoneStr) ELSE NoneStr,
                      !.number = IF req.json_ok THEN Get(payload, "number", NoneStr) ELSE NoneStr,
                      !.message = IF req.json_ok THEN Get(payload, "message", NoneStr) ELSE NoneStr,
                      !.outcome = IF r.status_code = 200 THEN "stored"
                                  ELSE IF r.status_code = 400 THEN "rejected" ELSE "error",
                      !.status_code = r.status_code, !.tx = r.tx]
  /\ nops' = nops + 1
  /\ UNCHANGED <<pollers, extracted, call>>

\* a poll cycle starts: fetch_and_store_sms down to the store loop.  The
\* cycle fetches, normalizes, masks and parses every masked row; an
\* exception of parse_mpesa ends the cycle there.
PollStart(p, response, now) ==
  /\ nops < MaxOps
  /\ pollers[p].pc = "idle"
  /\ \A q \in Pollers : q < p => pollers[q].pc # "idle"
  /\ \E raw_messages \in {fetch_inbox(response)} :
     \E df_inbox \in normalize(raw_messages, now) :
     \E rows \in {Frame(df_inbox)} :
     LET offered == [i \in DOMAIN rows |-> rows[i].guid]
         raising == {i \in DOMAIN rows : rows[i].parsed.raised # "None"}
         fetch == IF response.error = "None" THEN "ok" ELSE "failed"
     IN IF raw_messages = <<>>
        THEN /\ pollers' = pollers
             /\ last' = [NoStep EXCEPT !.op = "poll", !.result = "returned", !.fetch = fetch]
        ELSE IF raising # {}
        THEN /\ pollers' = pollers
             /\ last' = [NoStep EXCEPT !.op = "poll", !.result = "raised", !.fetch = fetch,
                                       !.offered = offered, !.failed = Min(raising)]
        ELSE /\ pollers' = [pollers EXCEPT ![p] =
                              [pc |-> "check", rows |-> rows, idx |-> 1,
                               stored_messages |-> 0, failed |-> 0]]
             /\ last' = [NoStep EXCEPT !.op = "poll", !.result = "running", !.fetch = fetch,
                                       !.offered = offered]
  /\ nops' = nops + 1
  /\ UNCHANGED <<messages, transactions, weblogs, extracted, call>>

\* the guids of the rows of a cycle, in the order of the data frame
Offered(st) == [i \in DOMAIN st.rows |-> st.rows[i].guid]

\* the cycle moves to its next row, or returns stored_messages after the
\* last; failed is the first row of the cycle whose try raised
Advance(p, stored, outcome, made) ==
  LET st == pollers[p]
      row == st.rows[st.idx]
      n == st.stored_messages + stored
      failed == IF outcome = "error" /\ st.failed = 0 THEN st.idx ELSE st.failed
      done == st.idx = Len(st.rows)
  IN /\ pollers' = [pollers EXCEPT ![p] =
                      IF done THEN Idle
                      ELSE [st EXCEPT !.pc = "check", !.idx = @ + 1,
                                      !.stored_messages = n, !.failed = failed]]
     /\ last' = [NoStep EXCEPT
                   !.op = "poll", !.guid = row.guid, !.number = row.number,
                   !.message = row.message, !.outcome = outcome, !.tx = made,
                   !.result = IF done THEN "returned" ELSE "running",
                   !.count = n, !.offered = Offered(st), !.failed = failed]

\* the existence check of the store loop: a row whose guid is stored is skipped
PollCheck(p) ==
  /\ pollers[p].pc = "check"
  /\ LET st == pollers[p]
         row == st.rows[st.idx]
     IN IF \E i \in DOMAIN messages : messages[i].guid = row.guid
        THEN Advance(p, 0, "skipped", "none")
        ELSE /\ pollers' = [pollers EXCEPT ![p].pc = "store"]
             /\ last' = [NoStep EXCEPT
                           !.op = "poll", !.guid = row.guid, !.number = row.number,
                           !.message = row.message, !.outcome = "checked",
                           !.result = "running", !.count = st.stored_messages,
                           !.offered = Offered(st), !.failed = st.failed]
  /\ UNCHANGED <<messages, transactions, weblogs, nops, extracted, call>>

\* the try of the store loop for the row that passed the check
PollStore(p) ==
  /\ pollers[p].pc = "store"
  /\ \E r \in {StoreRow(messages, transactions, pollers[p].rows[pollers[p].idx])} :
        /\ messages' = r.messages
        /\ transactions' = r.transactions
        /\ Advance(p, r.stored, r.outcome, r.tx)
  /\ UNCHANGED <<weblogs, nops, extracted, call>>

Next ==
  \/ \E r \in Payloads : Webhook([json_ok |-> TRUE, payload |-> r])
  \/ Webhook([json_ok |-> FALSE, payload |-> R_hello])
  \/ \E p \in Pollers, b \in Batches, now \in Clock :
       PollStart(p, [error |-> "None", body |-> JList(b)], now)
  \/ \E p \in Pollers, body \in Wrapped, now \in Clock :
       PollStart(p, [error |-> "None", body |-> body], now)
  \/ \E p \in Pollers, b \in Batches, now \in Clock, error \in FetchErrors :
       PollStart(p, [error |-> error, body |-> JList(b)], now)
  \/ \E p \in Pollers : PollCheck(p)
  \/ \E p \in Pollers : PollStore(p)

Spec == Init /\ [][Next]_vars

\* SMSMessageViewSet.mark_processed: POST .../{pk}/mark_processed/ by an
\* authenticated user; get_object answers 404 when no Message has this pk,
\* notes is request.data.get('notes', '')
MarkProcessed(pk) ==
  /\ nops < MaxOps
  /\ pk \in DOMAIN messages
  /\ messages' = mark_as_processed(messages, pk, "")
  /\ last' = [NoStep EXCEPT !.op = "mark_processed", !.guid = messages[pk].guid,
                            !.outcome = "marked", !.status_code = 200,
                            !.was = messages[pk].status]
  /\ nops' = nops + 1
  /\ UNCHANGED <<transactions, weblogs, pollers, extracted, call>>

\* SMSMessageViewSet.mark_failed
MarkFailed(pk) ==
  /\ nops < MaxOps
  /\ pk \in DOMAIN messages
  /\ messages' = mark_as_failed(messages, pk, "")
  /\ last' = [NoStep EXCEPT !.op = "mark_failed", !.guid = messages[pk].guid,
                            !.outcome = "marked", !.status_code = 200,
                            !.was = messages[pk].status]
  /\ nops' = nops + 1
  /\ UNCHANGED <<transactions, weblogs, pollers, extracted, call>>

\* the pipeline together with the two actions of the Message viewset
NextView ==
  \/ Next
  \/ \E pk \in 1..MaxOps : MarkProcessed(pk)
  \/ \E pk \in 1..MaxOps : MarkFailed(pk)

ViewSpec == Init /\ [][NextView]_vars

\* ------------------------------------------------- the functions, applied
\* The extractors, the phone normalizers, _to_unix and normalize are
\* functions of their arguments.  Here each is applied on its own to
\* arguments drawn from the sets below.

X_received == <<" ","C","o","n","f","i","r","m","e","d","."," ","Y","o","u"," ","h","a","v","e"," ","r","e","c","e","i","v","e","d"," ","K","s","h"," ">>

X_from == <<" ","f","r","o","m"," ">>

X_Ksh == <<" ","C","o","n","f","i","r","m","e","d","."," ","K","s","h"," ">>

X_paid == <<" ","p","a","i","d"," ","t","o"," ">>

X_on == <<" ","o","n"," ">>

X_at == <<" ","a","t"," ">>

\* a text of the template "received, with the phone of the counterparty"
ReceivedBody(code, amount, name, phone, date, time) ==
  code \o X_received \o amount \o X_from \o name \o <<" ">> \o phone
       \o X_on \o date \o X_at \o time

\* a text of the template "paid to a merchant"
PaidBody(code, amount, between, date, time) ==
  code \o X_Ksh \o amount \o X_paid \o between \o X_on \o date \o X_at \o time

\* transaction codes
Codes ==
  {<<"A","B","C","1","2","3","4","5">>}

\* amount tokens: with a thousands separator, whole, zero, separators only
Amounts ==
  {<<"5",",","0","0","0",".","0","0">>,
   <<"1","5","0">>,
   <<"0",".","0","0">>,
   <<",">>}

\* counterparty names
Names ==
  {<<"J","o","h","n"," ","D","o","e">>}

\* counterparty phones, in the three forms phone_rx takes
Phones ==
  {<<"+","2","5","4","7","1","2","3","4","5","6","7","8">>,
   <<"2","5","4","7","1","2","3","4","5","6","7","8">>,
   <<"0","7","1","2","3","4","5","6","7","8">>}

\* dates: one of the calendar, one not
Dates ==
  {<<"2","0","/","0","1","/","2","5">>,
   <<"3","1","/","0","2","/","2","5">>}

\* times of day
Times ==
  {<<"1","0",":","1","5"," ","A","M">>}

\* what stands between 'paid to' and the date: a name, a name and a phone,
\* a phone, a text that holds a whole 'sent to' message
Betweens ==
  {<<"S","h","o","p","R","i","t","e"," ","S","u","p","e","r","m","a","r","k","e","t">>,
   <<"J","o","h","n"," ","0","7","1","2","3","4","5","6","7","8">>,
   <<"0","7","1","2","3","4","5","6","7","8">>,
   <<"Z","."," ","D","E","F","4","5","6","7","8"," ","C","o","n","f","i","r","m","e","d","."," ","K","s","h"," ","5","0",".","0","0"," ","s","e","n","t"," ","t","o"," ","J","o","h","n"," ","0","7","1","2","3","4","5","6","7","8">>}

ReceivedBodies ==
  {ReceivedBody(q[1], q[2], q[3], q[4], q[5], q[6]) :
     q \in Codes \X Amounts \X Names \X Phones \X Dates \X Times}

PaidBodies ==
  {PaidBody(q[1], q[2], q[3], q[4], q[5]) :
     q \in Codes \X (Amounts \ {<<",">>}) \X Betweens \X Dates \X Times}

\* the bodies the extractors are applied to; None is a body that is no string
Bodies == ReceivedBodies \cup PaidBodies \cup {B_hello, B_bundle, B_balance, B_lipa, NoneStr}

\* the senders: one with the brand, one without
Senders == {S_MPESA, S_person}

\* the phones the normalizers are applied to: None, the empty text, the
\* Kenyan forms, with separators, foreign numbers, texts without digits
PhoneInputs ==
  {NoneStr,
   <<>>,
   <<"0","7","1","2","3","4","5","6","7","8">>,
   <<"2","5","4","7","1","2","3","4","5","6","7","8">>,
   <<"+","2","5","4","7","1","2","3","4","5","6","7","8">>,
   <<"7","1","2","3","4","5","6","7","8">>,
   <<"+","7","1","2","3","4","5","6","7","8">>,
   <<"0","7","1","2"," ","3","4","5","-","6","7","8">>,
   <<"(","2","5","4",")"," ","7","1","2","-","3","4","5","6","7","8">>,
   <<"+","1"," ","5","5","5"," ","0","1","0","0">>,
   <<"1","5","5","5","0","1","0","0">>,
   <<"7","1","2","3","4","5","6","7","8","9">>,
   <<"+">>,
   <<"a","b","c">>,
   <<"+","0","7","1","2","3","4","5","6","7","8">>}

\* The records _to_unix is applied to are put together from one choice for
\* each of its sources; ok says whether the source resolves, ts to what.
NoFields == [k \in {} |-> <<>>]

Unresolved(fields) == [fields |-> fields, kind |-> "none", ok |-> FALSE, ts |-> 0]

\* the numeric fields: none, a time in milliseconds, a ts that is no number
NumericChoices ==
  {Unresolved(NoFields),
   [fields |-> [time |-> <<"1","7","0","0","0","0","0","0","0","0","1","2","3">>], kind |-> "numeric", ok |-> TRUE, ts |-> 1700000000],
   Unresolved([ts |-> <<"n","/","a">>])}

\* time_received: none, 13 digits, 10 digits, YYYYMMDDHHMMSS and more, a
\* text of another form
ReceivedChoices ==
  {Unresolved(NoFields),
   [fields |-> [time_received |-> <<"1","7","3","7","3","6","8","0","9","0","1","2","3">>], kind |-> "ms", ok |-> TRUE, ts |-> 1737368090],
   [fields |-> [time_received |-> <<"1","7","3","7","3","6","8","0","9","1">>], kind |-> "s", ok |-> TRUE, ts |-> 1737368091],
   [fields |-> [time_received |-> <<"2","0","2","5","0","1","2","0","1","0","1","4","5","0","9","9","9">>], kind |-> "compact", ok |-> TRUE, ts |-> 1737368090],
   Unresolved([time_received |-> <<"2","0","2","5","-","0","1","-","2","0"," ","1","0",":","1","4",":","5","0">>])}

\* date and hour: none, a pair fromisoformat reads, a pair it does not
DateHourChoices ==
  {Unresolved(NoFields),
   [fields |-> [date |-> <<"2","0","2","5","-","0","1","-","2","0">>, hour |-> <<"1","0",":","1","5",":","0","0">>], kind |-> "datehour", ok |-> TRUE, ts |-> 1737368100],
   Unresolved([date |-> <<"2","0","/","0","1","/","2","0","2","5">>, hour |-> <<"1","0",":","1","5",":","0","0">>])}

\* the records normalize is applied to: two of one timestamp (one of them
\* without an identifier), and two of other timestamps
SortRecords == {R_hello, R_no_guid, R_bundle, R_comma}

\* the batches normalize is applied to: up to MaxRows records
Records == UNION {[1..k -> SortRecords] : k \in 0..MaxRows}

\* a call of fn with arguments args, not yet made
Call(fn, args) == [fn |-> fn, args |-> args, done |-> FALSE]

\* the lists a response holds
Lists == {<<>>, <<R_hello>>, <<R_bundle, R_hello>>}

InitFn ==
  /\ messages = <<>>
  /\ transactions = <<>>
  /\ weblogs = <<>>
  /\ pollers = [p \in Pollers |-> Idle]
  /\ nops = 0
  /\ last = NoStep
  /\ extracted = {}
  /\ \/ \E message \in Bodies, provider_hint \in Senders :
          call = Call("parse", <<message, provider_hint>>)
     \/ \E text \in Bodies, provider_hint \in Senders :
          call = Call("parse_mpesa", <<text, provider_hint>>)
     \/ \E phone \in PhoneInputs : call = Call("_normalize_phone", <<phone>>)
     \/ \E phone \in PhoneInputs : call = Call("_norm_phone", <<phone>>)
     \/ \E n \in NumericChoices, t \in ReceivedChoices, d \in DateHourChoices, now \in Clock :
          call = Call("_to_unix", <<n.fields @@ t.fields @@ d.fields, now>>)
     \/ \E records \in Records, now \in Clock : call = Call("normalize", <<records, now>>)
     \/ \E l \in Lists : call = Call("_unwrap_sms", <<JList(l)>>)
     \/ \E l \in Lists :
          call = Call("_unwrap_sms", <<JDict([result |-> JDict([sms |-> JList(l)])])>>)
     \/ \E l \in Lists : call = Call("_unwrap_sms", <<JDict([sms |-> JList(l)])>>)
     \/ \E l \in Lists, under \in Lists :
          call = Call("_unwrap_sms", <<JDict([result |-> JDict([sms |-> JList(l)]),
                                              sms |-> JList(under)])>>)
     \/ \E l \in Lists, under \in Lists :
          call = Call("_unwrap_sms", <<JDict([result |-> JList(l), sms |-> JList(under)])>>)
     \/ \E l \in Lists, other \in {JStr, JNull} :
          call = Call("_unwrap_sms", <<JDict([result |-> JDict([sms |-> other]),
                                              sms |-> JList(l)])>>)
     \/ \E l \in Lists :
          call = Call("_unwrap_sms", <<JDict([result |-> JDict([messages |-> JList(l)])])>>)
     \/ \E l \in Lists :
          call = Call("_unwrap_sms", <<JDict([sms |-> JDict([sms |-> JList(l)])])>>)
     \/ \E l \in Lists : call = Call("_unwrap_sms", <<JDict([messages |-> JList(l)])>>)
     \/ \E other \in {JStr, JNull} : call = Call("_unwrap_sms", <<JDict([sms |-> other])>>)
     \/ call = Call("_unwrap_sms", <<JDict(<<>>)>>)
     \/ \E other \in {JStr, JNull} : call = Call("_unwrap_sms", <<other>>)

\* the call returns (or raises): result is what it leaves
Return(result) ==
  /\ call' = [fn |-> call.fn, args |-> call.args, done |-> TRUE, result |-> result]
  /\ UNCHANGED <<messages, transactions, weblogs, pollers, nops, last, extracted>>

Apply_parse ==
  /\ call.fn = "parse" /\ ~call.done
  /\ Return(parse(call.args[1], call.args[2]))

Apply_parse_mpesa ==
  /\ call.fn = "parse_mpesa" /\ ~call.done
  /\ Return(parse_mpesa(call.args[1], call.args[2]))

Apply_normalize_phone ==
  /\ call.fn = "_normalize_phone" /\ ~call.done
  /\ Return(_normalize_phone(call.args[1]))

Apply_norm_phone ==
  /\ call.fn = "_norm_phone" /\ ~call.done
  /\ Return(_norm_phone(call.args[1]))

Apply_to_unix ==
  /\ call.fn = "_to_unix" /\ ~call.done
  /\ Return(_to_unix(call.args[1], call.args[2]))

Apply_normalize ==
  /\ call.fn = "normalize" /\ ~call.done
  /\ \E df \in normalize(call.args[1], call.args[2]) : Return(df)

Apply_unwrap_sms ==
  /\ call.fn = "_unwrap_sms" /\ ~call.done
  /\ Return(_unwrap_sms(call.args[1]))

NextFn ==
  \/ Apply_unwrap_sms
  \/ Apply_parse
  \/ Apply_parse_mpesa
  \/ Apply_normalize_phone
  \/ Apply_norm_phone
  \/ Apply_to_unix
  \/ Apply_normalize

FnSpec == InitFn /\ [][NextFn]_vars

\* ------------------------------------------------------------ the claims
\* the provider brand token is in the address or in the body of a record
Branded(number, message) ==
  \/ Contains(Lower(number), T_mpesa) \/ Contains(Lower(number), T_m_pesa)
  \/ Contains(Lower(message), T_mpesa) \/ Contains(Lower(message), T_m_pesa)

\* the draft the Transaction Extractor returns of a stored text
DraftOf(m) == ExtractedOf(m.message, m.number).parse

\* the transactions of the message pk
TransactionsOf(txs, pk) == {i \in DOMAIN txs : txs[i].sms_message = pk}

\* C1: after any interleaving of webhook calls and poll cycles no two stored
\* Messages share an identifier
C1_NoDuplicateIdentifiers ==
  \A i, j \in DOMAIN messages : messages[i].guid = messages[j].guid => i = j

\* an identifier that is stored was offered again to the webhook, and the
\* unique constraint refused it
C1_Witness ==
  /\ last.op = "webhook" /\ last.outcome = "error" /\ last.tx = "none"
  /\ PkOf(messages, last.guid) # 0
  /\ messages[PkOf(messages, last.guid)].message # last.message

\* C2: re-delivering a record whose identifier is stored, through the webhook
\* or through a poll cycle, creates and modifies no Message and no
\* Transaction, and is not reported as an error
C2_RedeliverySkipped ==
  [][ LET webhook == nops' = nops + 1 /\ last'.op = "webhook"
          poll == \E p \in Pollers : pollers[p].pc = "check" /\ pollers'[p] # pollers[p]
      IN (webhook \/ poll) /\ PkOf(messages, last'.guid) # 0
         => /\ messages' = messages
            /\ transactions' = transactions
            /\ last'.outcome # "error" ]_vars

\* C3: every Message owns at most one Transaction and every Transaction
\* references a Message of the store
C3_OneTransactionPerMessage ==
  /\ \A i \in DOMAIN transactions : transactions[i].sms_message \in DOMAIN messages
  /\ \A i, j \in DOMAIN transactions :
       transactions[i].sms_message = transactions[j].sms_message => i = j

\* two Messages own a Transaction each, and a third Message owns none
C3_Witness ==
  /\ Len(transactions) = 2
  /\ transactions[1].sms_message # transactions[2].sms_message
  /\ Len(messages) > 2

\* C4: a newly ingested record without the brand token in its address and
\* body ends stored, its Message processed, and no Transaction is created,
\* on the webhook path and on the poll path
C4_NonCandidateProcessed ==
  [][ \A i \in DOMAIN messages' \ DOMAIN messages :
        ~Branded(messages'[i].number, messages'[i].message)
        => /\ messages'[i].status = "processed"
           /\ last'.outcome = "stored"
           /\ transactions' = transactions ]_vars

\* C5: a candidate record whose draft has no direction gets no Transaction
\* and its Message ends failed
C5_NullDirectionFails ==
  [][ \A i \in DOMAIN messages' \ DOMAIN messages :
        /\ Branded(messages'[i].number, messages'[i].message)
        /\ DraftOf(messages'[i]).raised = "None"
        /\ DraftOf(messages'[i]).direction = "None"
        => /\ messages'[i].status = "failed"
           /\ transactions' = transactions ]_vars

\* C6: a candidate record whose draft has a direction gets a Transaction
\* linked to its Message, and the Message ends processed, whatever fields
\* of the draft are null
C6_DirectionPersists ==
  [][ \A i \in DOMAIN messages' \ DOMAIN messages :
        /\ Branded(messages'[i].number, messages'[i].message)
        /\ DraftOf(messages'[i]).raised = "None"
        /\ DraftOf(messages'[i]).direction # "None"
        => /\ messages'[i].status = "processed"
           /\ TransactionsOf(transactions', i) # {} ]_vars

\* C7: when a poll cycle has ended and handling its record k failed, the
\* records after k of the batch are in the store
C7_BatchIsolation ==
  last.op = "poll" /\ last.result \in {"returned", "raised"} /\ last.failed > 0
  => \A j \in (last.failed + 1)..Len(last.offered) :
       PkOf(messages, last.offered[j]) # 0

\* C8: when persisting the Transaction fails after the Message was written,
\* the record ends in the error outcome, the Message is stored as received
\* with the fields it was written with, and it owns no Transaction
C8_TransactionFailureKeepsMessage ==
  last.tx = "failed"
  => /\ last.outcome = "error"
     /\ PkOf(messages, last.guid) # 0
     /\ LET m == messages[PkOf(messages, last.guid)]
        IN /\ m.status = "received" /\ m.processing_notes = ""
           /\ m.number = last.number /\ m.message = last.message
     /\ TransactionsOf(transactions, PkOf(messages, last.guid)) = {}

\* a poll cycle wrote a Message, could not write its Transaction, and went on
C8_Witness ==
  /\ last.tx = "failed" /\ last.op = "poll" /\ last.result = "running"
  /\ \E i \in DOMAIN messages : messages[i].guid = last.guid /\ messages[i].status = "received"

\* C9: a persisted Transaction is valid exactly when its code, its amount
\* and its direction are not null; an amount of 0 is not null
C9_ValidIffNonNull ==
  \A i \in DOMAIN transactions :
    is_valid(transactions[i])
    <=> /\ transactions[i].tx_code # NoneStr
        /\ transactions[i].amount.type # "None"
        /\ transactions[i].direction # "None"

Matches(pat) ==
  /\ call.fn = "parse" /\ call.done
  /\ IsStr(call.args[1]) /\ is_mpesa(call.args[1], call.args[2])
  /\ Search(pat, call.args[1]).ok

F_0_9 == Float(9, 16)

\* C12: for a body of the shape 'received, with the phone of the
\* counterparty' from a branded sender, the draft parse returns carries
\* direction received, the amount with the thousands separators removed, the
\* trimmed name, the phone in +254 form, the leading code, and a confidence of
\* at least 0.9.
C12_ReceivedWithPhone ==
  \A q \in Codes \X Amounts \X Names \X Phones \X Dates \X Times :
    (/\ call.fn = "parse" /\ call.done /\ call.result.raised = "None"
     /\ call.args[1] = ReceivedBody(q[1], q[2], q[3], q[4], q[5], q[6])
     /\ call.args[2] = S_MPESA)
      => LET digits == Filter(q[4], Digits)
         IN /\ call.result.direction = "received"
            /\ call.result.amount.type = "Decimal"
            /\ call.result.amount.cents = NumberOf(Filter(q[2], Alphabet \ {","})).cents
            /\ call.result.name = Strip(q[3])
            /\ call.result.phone = T_plus254 \o SubSeq(digits, Len(digits) - 8, Len(digits))
            /\ call.result.tx_code = q[1]
            /\ ~FloatLess(call.result.parsing_confidence, F_0_9)

\* C13: the confidence of every draft lies in [0, 1]; when a template
\* matches it is min(1.0, 0.5 + 0.2 for an amount that is not null + 0.2 for
\* a code + 0.1 for a resolved time + 0.1 for a name), and it is 0.0 when no
\* template matches or the record is no candidate.
C13_ConfidenceFormula ==
  (call.fn = "parse" /\ call.done /\ call.result.raised = "None")
    => LET d == call.result
           sum == 5 + (IF d.amount.type # "None" THEN 2 ELSE 0)
                    + (IF d.tx_code # NoneStr THEN 2 ELSE 0)
                    + (IF d.tx_datetime_local.set THEN 1 ELSE 0)
                    + (IF d.name # NoneStr THEN 1 ELSE 0)
       IN /\ ~FloatLess(d.parsing_confidence, F_0_0)
          /\ ~FloatLess(F_1_0, d.parsing_confidence)
          /\ d.parsing_confidence =
               IF d.direction = "None" THEN F_0_0
               ELSE FloatRound(IF sum > 10 THEN 10 ELSE sum, 0)

\* a phone normalizer was applied to phone and returned
Normalized(phone) ==
  /\ call.fn \in {"_normalize_phone", "_norm_phone"} /\ call.done
  /\ call.args[1] = phone

\* C14: both phone normalizers map null and the empty text to null, and
\* otherwise go by the digits of the input: a leading 0 is replaced by +254;
\* digits that start with 254 get a + in front; nine digits that start with 7
\* get +254 in front; any other input without a leading + becomes + and its
\* digits; any other input with a leading + is returned as it is.  So
\* 0712345678, 254712345678 and +254712345678 all give +254712345678.
C14_PhoneNormalization ==
  \A phone \in PhoneInputs :
    Normalized(phone)
      => LET digits == Filter(phone, Digits)
         IN /\ call.result =
                 IF phone = NoneStr \/ phone = <<>> THEN NoneStr
                 ELSE IF digits # <<>> /\ Head(digits) = "0" THEN T_plus254 \o Tail(digits)
                 ELSE IF Len(digits) >= 3 /\ SubSeq(digits, 1, 3) = <<"2","5","4">>
                      THEN <<"+">> \o digits
                 ELSE IF Len(digits) = 9 /\ Head(digits) = "7" THEN T_plus254 \o digits
                 ELSE IF Head(phone) # "+" THEN <<"+">> \o digits
                 ELSE phone
            /\ digits = <<"2","5","4","7","1","2","3","4","5","6","7","8">>
                 => call.result = <<"+","2","5","4","7","1","2","3","4","5","6","7","8">>
            /\ digits = <<"0","7","1","2","3","4","5","6","7","8">>
                 => call.result = <<"+","2","5","4","7","1","2","3","4","5","6","7","8">>

\* the poll's normalizer was given 0712345678 and returned +254712345678
C14_Witness ==
  /\ call.fn = "_norm_phone" /\ call.done
  /\ call.args[1] = <<"0","7","1","2","3","4","5","6","7","8">>
  /\ call.result = <<"+","2","5","4","7","1","2","3","4","5","6","7","8">>

\* C15: on both ingestion paths the amount of a draft is an exact fixed-point
\* decimal, never a binary floating-point value, and the amount a Transaction
\* stores is that decimal.
C15_ExactDecimalOnBothPaths ==
  /\ \A p \in Pollers : \A i \in DOMAIN pollers[p].rows :
       pollers[p].rows[i].parsed.amount.type \in {"None", "Decimal"}
  /\ \A i \in DOMAIN transactions :
       LET tx == transactions[i]
           m == messages[tx.sms_message]
       IN /\ tx.amount.type = "Decimal"
          /\ tx.amount.cents = ExtractedOf(m.message, m.number).parse.amount.cents

\* C16: the extractors return a draft for every input and never raise; a
\* body that is no string, and a body whose amount token cannot be converted,
\* give a draft with an entry in its parse errors.
C16_ExtractNeverRaises ==
  (call.fn \in {"parse", "parse_mpesa"} /\ call.done)
    => /\ call.result.raised = "None"
       /\ (call.fn = "parse" /\ ~IsStr(call.args[1])) => call.result.parsing_errors # <<>>

\* _to_unix was applied to the record of the choices n, t, d at time now
Resolved(n, t, d, now) ==
  /\ call.fn = "_to_unix" /\ call.done
  /\ call.args = <<n.fields @@ t.fields @@ d.fields, now>>

\* C17, as stated: the timestamp of a record is the first that resolves of
\* (1) a numeric field, (2) the date+hour pair, (3) a 13-digit time_received,
\* (4) a 10-digit one, (5) a YYYYMMDDHHMMSS one, (6) the wall clock; a record
\* with a parseable date+hour pair and a 13-digit time_received resolves from
\* the pair.
C17_DateHourSecond ==
  \A n \in NumericChoices, t \in ReceivedChoices, d \in DateHourChoices, now \in Clock :
    Resolved(n, t, d, now)
      => call.result = IF n.ok THEN n.ts
                       ELSE IF d.ok THEN d.ts
                       ELSE IF t.ok THEN t.ts
                       ELSE now

\* C17, amended: the timestamp of a record is the first that resolves of
\* (1) a numeric field, cut to 10 digits, (2) a 13-digit time_received, as
\* seconds, (3) a 10-digit one, (4) a YYYYMMDDHHMMSS one, (5) the date+hour
\* pair, (6) the wall clock; so every record gets a timestamp, and a record
\* with a parseable date+hour pair and a 13-digit time_received resolves from
\* time_received.
C17_DateHourLast ==
  \A n \in NumericChoices, t \in ReceivedChoices, d \in DateHourChoices, now \in Clock :
    Resolved(n, t, d, now)
      => /\ call.result \in Nat
         /\ call.result = IF n.ok THEN n.ts
                          ELSE IF t.ok THEN t.ts
                          ELSE IF d.ok THEN d.ts
                          ELSE now

\* a record with a parseable date+hour pair and a 13-digit time_received
\* got the time of time_received
C17_Witness ==
  \E n \in NumericChoices, t \in ReceivedChoices, d \in DateHourChoices, now \in Clock :
    /\ Resolved(n, t, d, now)
    /\ ~n.ok /\ t.kind = "ms" /\ d.ok
    /\ call.result = t.ts /\ call.result # d.ts

\* rows with row put after the last row whose timestamp is not smaller
InsertDesc(rows, row) ==
  LET ahead == {i \in 1..Len(rows) : rows[i].timestamp_unix >= row.timestamp_unix}
      latest == IF ahead = {} THEN 0 ELSE Max(ahead)
  IN SubSeq(rows, 1, latest) \o <<row>> \o SubSeq(rows, latest + 1, Len(rows))

\* the first n rows by timestamp descending, rows of equal timestamp in the
\* order they have in rows
RECURSIVE SortDesc(_, _)
SortDesc(rows, n) ==
  IF n = 0 THEN <<>> ELSE InsertDesc(SortDesc(rows, n - 1), rows[n])

\* C18: normalize returns one canonical record for each input record, by
\* timestamp descending, and records of equal timestamp in the order they
\* have in the input.
C18_StableDescendingOrder ==
  (call.fn = "normalize" /\ call.done)
    => LET records == call.args[1]
           n == Len(records)
       IN /\ Len(call.result) = n
          /\ call.result = SortDesc(Rows(records, call.args[2], n), n)

\* C19: a record with neither identifier field gets the empty text as its
\* id, and the poll never skips a record of empty id as a duplicate: it is
\* rejected or stored as a Message of its own.
C19_EmptyIdNeverSkipped ==
  /\ \A b \in Batches : \A k \in DOMAIN b : \A now \in Clock :
       (~("guid" \in DOMAIN b[k]) /\ ~("guid_message" \in DOMAIN b[k]))
         => NormalizeRow(b[k], now).guid = <<>>
  /\ (last.op = "poll" /\ last.guid = <<>>) => last.outcome # "skipped"

\* C20: when the fetch from the gateway fails (a timeout, a network error,
\* an HTTP error, a response that cannot be decoded) the cycle processes no
\* record, and the Message and Transaction stores stay as they are.
C20_FailedFetchChangesNothing ==
  [][(last'.op = "poll" /\ last'.fetch = "failed")
       => /\ messages' = messages /\ transactions' = transactions
          /\ pollers' = pollers
          /\ last'.result = "returned" /\ last'.count = 0 /\ last'.offered = <<>>]_vars

\* a cycle whose fetch failed ended with a Message in the store
C20_Witness ==
  /\ last.op = "poll" /\ last.fetch = "failed" /\ last.result = "returned"
  /\ messages # <<>>

\* C21: when the fetch from the gateway fails, the caller of the poll cycle
\* gets an error outcome, one that a cycle that fetched and found no new
\* record does not give.
C21_FailedFetchReported ==
  (last.op = "poll" /\ last.fetch = "failed" /\ last.result # "running")
    => ~FetchSMSViewPost(last.result, last.count).success

\* the latest step was a delivery of the payload r to the webhook
Delivered(r) ==
  /\ last.op = "webhook"
  /\ last.guid = Get(r, "guid", NoneStr)
  /\ last.number = Get(r, "number", NoneStr)
  /\ last.message = Get(r, "message", NoneStr)

\* a required field of the payload r is missing
Lacking(r) == \E f \in required_fields : f \notin DOMAIN r

\* a required field of the payload r cannot be read as what it stands for
Malformed(r) ==
  /\ ~Lacking(r)
  /\ \/ ~DateOf(r.date, FALSE).ok
     \/ ~TimeOf(r.hour, FALSE).ok
     \/ ~DateTimeOf(r.time_received).ok

\* C22: every webhook call ends in one of three classes: 200, with the
\* identifier, when the record was ingested; 400 when the payload is no JSON,
\* lacks a required field, or has a malformed required field; 500 only for a
\* failure of the store or another unexpected failure.
C22_WebhookOutcomeClasses ==
  last.op = "webhook"
    => /\ last.status_code \in {200, 400, 500}
       /\ last.guid = NoneStr => last.status_code = 400
       /\ \A r \in Payloads :
            Delivered(r) /\ (Lacking(r) \/ Malformed(r)) => last.status_code = 400
       /\ last.status_code = 200 => \E i \in DOMAIN messages : messages[i].guid = last.guid

C25_CycleReturnsItsCount ==
  [][last'.op = "poll"
       => /\ last'.result # "raised"
          /\ \A p \in Pollers :
               pollers[p].pc # "idle" /\ pollers'[p] # pollers[p]
                 => /\ last'.count = pollers[p].stored_messages
                                       + Len(messages') - Len(messages)
                    /\ last'.outcome \in {"skipped", "checked"} => messages' = messages
                    /\ (last'.outcome = "error" /\ last'.tx = "none") => messages' = messages]_vars

\* the value under key of a dict, null of what is no dict or has no such key
Under(payload, key) ==
  IF payload.type = "dict" /\ key \in DOMAIN payload.d THEN payload.d[key] ELSE JNull

\* C26: unwrapping a response returns the payload itself when it is a list,
\* the list under result.sms when there is one, otherwise the list under sms
\* when there is one, and the empty list for every other shape.
C26_Unwrap ==
  (call.fn = "_unwrap_sms" /\ call.done)
    => LET payload == call.args[1]
           inner == Under(Under(payload, "result"), "sms")
           outer == Under(payload, "sms")
       IN IF payload.type = "list" THEN call.result = payload.items
          ELSE IF inner.type = "list" THEN call.result = inner.items
          ELSE IF outer.type = "list" THEN call.result = outer.items
          ELSE call.result = <<>>

\* a response that holds one list under result.sms and another under sms
\* was unwrapped
C26_Witness ==
  /\ call.fn = "_unwrap_sms" /\ call.done
  /\ call.args[1].type = "dict"
  /\ Under(Under(call.args[1], "result"), "sms").type = "list"
  /\ Under(call.args[1], "sms").type = "list"
  /\ Under(call.args[1], "sms").items # call.result
  /\ call.result # <<>>

\* what the match m of one template makes of the draft: the direction of the
\* template, and the code, the name and the phone of the groups of m
DraftFrom(d, direction, m, text, with_phone) ==
  /\ d.direction = direction
  /\ d.tx_code = Group(m, text, "code")
  /\ d.date = Group(m, text, "date") /\ d.time = Group(m, text, "time")
  /\ d.name = (IF Strip(Group(m, text, "name")) = <<>> THEN NoneStr
               ELSE Strip(Group(m, text, "name")))
  /\ IF with_phone
     THEN /\ d.phone # NoneStr
          /\ d.phone = _normalize_phone(Group(m, text, "phone"))
          \* the name ends where the phone token begins
          /\ m.caps["name"][2] <= m.caps["phone"][1]
     ELSE d.phone = NoneStr

Loses(p) ==
  /\ pollers[p].pc = "store" /\ pollers'[p] # pollers[p]
  /\ PkOf(messages, pollers[p].rows[pollers[p].idx].guid) # 0

\* C28: when two attempts to ingest the same new identifier both pass the
\* existence check before either writes, exactly one creates the Message;
\* the other ends in the error outcome, creates no Transaction and leaves
\* the Message of the winner as it is.
C28_OneWinner ==
  [][/\ \A p \in Pollers :
          Loses(p) => /\ last'.outcome = "error" /\ last'.tx = "none"
                      /\ messages' = messages
                      /\ transactions' = transactions
     /\ \A i, j \in DOMAIN messages' :
          messages'[i].guid = messages'[j].guid => i = j]_vars

\* a cycle that had passed the check for a guid failed to write it, the
\* guid being stored meanwhile by the other cycle
C28_Witness ==
  /\ last.op = "poll" /\ last.outcome = "error" /\ last.tx = "none"
  /\ PkOf(messages, last.guid) # 0
  /\ \E t \in DOMAIN transactions : transactions[t].sms_message = PkOf(messages, last.guid)

\* what one poll cycle that is offered the single record r leaves of an
\* empty store: the cycle ends before the store loop when parse_mpesa raises
Polled(r, now) ==
  {IF Frame(df)[1].parsed.raised # "None"
   THEN [messages |-> <<>>, transactions |-> <<>>]
   ELSE LET left == StoreRow(<<>>, <<>>, Frame(df)[1])
        IN [messages |-> left.messages, transactions |-> left.transactions] :
     df \in normalize(<<r>>, now)}

\* C29: the same record, offered to a store that does not hold its
\* identifier, leaves by the webhook what it leaves by a poll cycle: the same
\* status of its Message, and a Transaction on both paths or on neither, with
\* the same direction, amount, name, phone and code.
C29_SameByWebhookAndPoll ==
  \A r \in Payloads :
    (nops = 1 /\ Delivered(r) /\ ~Lacking(r) /\ ~Malformed(r))
      => \A now \in Clock : \A polled \in Polled(r, now) :
           /\ Len(polled.messages) = Len(messages)
           /\ \A i \in DOMAIN messages : polled.messages[i].status = messages[i].status
           /\ Len(polled.transactions) = Len(transactions)
           /\ \A t \in DOMAIN transactions :
                /\ polled.transactions[t].direction = transactions[t].direction
                /\ polled.transactions[t].amount = transactions[t].amount
                /\ polled.transactions[t].name = transactions[t].name
                /\ polled.transactions[t].phone = transactions[t].phone
                /\ polled.transactions[t].tx_code = transactions[t].tx_code

\* C30: every stored Transaction carries the confidence and the list of
\* parse errors of the draft MPESAParser.parse makes of the body of its
\* Message, and the confidence is the capped sum min(1.0, 0.5 + 0.2 amount
\* + 0.2 code + 0.1 resolved time + 0.1 name), by the webhook and by a poll.
C30_StoredConfidence ==
  \A t \in DOMAIN transactions :
    LET tx == transactions[t]
        m == messages[tx.sms_message]
        d == ExtractedOf(m.message, m.number).parse
        sum == 5 + (IF tx.amount.type # "None" THEN 2 ELSE 0)
                 + (IF tx.tx_code # NoneStr THEN 2 ELSE 0)
                 + (IF tx.tx_datetime_local.set THEN 1 ELSE 0)
                 + (IF tx.name # NoneStr THEN 1 ELSE 0)
    IN /\ tx.parsing_errors = [type |-> "list", value |-> d.parsing_errors]
       /\ tx.parsing_confidence = d.parsing_confidence
       /\ tx.parsing_confidence = FloatRound(IF sum > 10 THEN 10 ELSE sum, 0)

====
